---------------------------- MODULE Spec2Model ----------------------------
(***************************************************************************)
(* A model of the scop viewer (Zuraw7/scop): the mesh loader and material  *)
(* loader (Object.cpp, Material.cpp), the object transform (Object.cpp,    *)
(* matrixOperations.cpp), the camera (Camera.cpp), the input callbacks     *)
(* (callbacks.cpp, inputManagement.cpp) and the frame loop (main.cpp,      *)
(* Renderer.cpp).                                                          *)
(*                                                                         *)
(* Numbers.  A float or double is modelled by an exact rational <<n, d>>   *)
(* in lowest terms with d >= 0; d = 0 stands for the IEEE specials         *)
(* (<<1,0>> = +inf, <<-1,0>> = -inf, <<0,0>> = NaN), so that a division by *)
(* zero gives what the build gives.  Rounding is not modelled.             *)
(*                                                                         *)
(* Trigonometry.  cos and sin are tabulated at whole quarter turns: the    *)
(* angle argument k of getRotationMatrixY stands for k quarter turns, in   *)
(* the unit the function takes.  The camera's basis vectors, view matrix   *)
(* and projection matrix, whose entries are cos, sin and tan of arbitrary  *)
(* angles, are kept as the arguments they were computed from.              *)
(***************************************************************************)
EXTENDS Integers, Sequences, FiniteSets, TLC

VARIABLES
    pc,            \* position of main(): see the actions below
    exitCode,      \* main's return value once pc = "exited" ("none" before)
    obj,           \* the Object instance allocated by Object::create
    objectPtr,     \* main's unique_ptr `object`: "unset", "nullptr" or "object"
    gCamera,       \* the global Camera
    mouse,         \* callbacks.cpp statics: firstMouse, lastX, lastY
    keysWas,       \* changeModes statics: pWasPressed, tWasPressed
    renderer,      \* Renderer: m_polygonMode, m_colorMode, and draw's rColorMix
    window,        \* GLFW window state: shouldClose
    deltaTime,     \* main's deltaTime of the current iteration
    frame,         \* number of the current iteration of the frame loop
    uniforms,      \* what Renderer::setUniforms last sent, and in which frame
    gTextureManager, \* the global TextureManager: m_textures2D, m_slots, m_nextSlot
    shader,        \* main's Shader: m_uniformCache
    gl,            \* the graphics API: textures generated, uniform names asked for
    lastCall       \* the last operation invoked and its arguments

vars == <<pc, exitCode, obj, objectPtr, gCamera, mouse, keysWas, renderer,
          window, deltaTime, frame, uniforms, gTextureManager, shader, gl,
          lastCall>>

\* The texture manager, the shader and the graphics API they call.
Graphics == <<gTextureManager, shader, gl>>

-----------------------------------------------------------------------------
(* Rational arithmetic standing for float arithmetic.                      *)

Abs(n) == IF n < 0 THEN -n ELSE n

Sgn(n) == IF n < 0 THEN -1 ELSE IF n > 0 THEN 1 ELSE 0

RECURSIVE GCD(_, _)
GCD(a, b) == IF b = 0 THEN a ELSE GCD(b, a % b)

Norm(n, d) ==
    IF d = 0 THEN <<Sgn(n), 0>>
    ELSE LET g == GCD(Abs(n), d) IN <<Sgn(n) * (Abs(n) \div g), d \div g>>

R(n) == <<n, 1>>

Frac(n, d) == Norm(n, d)

NaN == <<0, 0>>

IsFinite(a) == a[2] # 0

RAdd(a, b) ==
    IF a[2] = 1 /\ b[2] = 1 THEN <<a[1] + b[1], 1>>
    ELSE IF a[2] = 0 /\ b[2] = 0 THEN (IF a[1] = b[1] THEN a ELSE NaN)
    ELSE Norm(a[1] * b[2] + b[1] * a[2], a[2] * b[2])

RNeg(a) == <<-a[1], a[2]>>

RSub(a, b) == RAdd(a, RNeg(b))

RMul(a, b) ==
    IF a[2] = 1 /\ b[2] = 1 THEN <<a[1] * b[1], 1>>
    ELSE Norm(a[1] * b[1], a[2] * b[2])

RInv(a) == IF a[1] < 0 THEN <<-a[2], -a[1]>> ELSE <<a[2], a[1]>>

RDiv(a, b) == RMul(a, RInv(b))

RLt(a, b) ==
    IF a[2] = 0 /\ b[2] = 0
    THEN a[1] < b[1] /\ a[1] # 0 /\ b[1] # 0
    ELSE a[1] * b[2] < b[1] * a[2]

RGt(a, b) == RLt(b, a)

RLe(a, b) == a # NaN /\ b # NaN /\ ~RLt(b, a)

RGe(a, b) == RLe(b, a)

-----------------------------------------------------------------------------
(* utils/vectorOperations.cpp                                              *)

Vec3(x, y, z) == <<R(x), R(y), R(z)>>

ZeroVec == Vec3(0, 0, 0)

subtractVec(a, b) == <<RSub(a[1], b[1]), RSub(a[2], b[2]), RSub(a[3], b[3])>>

addVec(a, b) == <<RAdd(a[1], b[1]), RAdd(a[2], b[2]), RAdd(a[3], b[3])>>

multiplyVecByFloat(vec, x) == <<RMul(vec[1], x), RMul(vec[2], x), RMul(vec[3], x)>>

crossProdVec(a, b) ==
    << RSub(RMul(a[2], b[3]), RMul(a[3], b[2])),
       RSub(RMul(a[3], b[1]), RMul(a[1], b[3])),
       RSub(RMul(a[1], b[2]), RMul(b[1], a[2])) >>

dotProdVec(a, b) == RAdd(RAdd(RMul(a[1], b[1]), RMul(a[2], b[2])), RMul(a[3], b[3]))

\* std::sqrt on the rationals that have a rational root (a CHOOSE over the
\* empty set, which TLC reports as an error, anywhere else).
IntSqrt(n) == CHOOSE r \in 0..n : r * r = n

RSqrt(a) == IF a[2] = 0 THEN a ELSE <<IntSqrt(a[1]), IntSqrt(a[2])>>

normalizeVec(vec) ==
    LET length == RSqrt(RAdd(RAdd(RMul(vec[1], vec[1]), RMul(vec[2], vec[2])),
                             RMul(vec[3], vec[3])))
    IN  IF length = R(0) THEN ZeroVec
        ELSE <<RDiv(vec[1], length), RDiv(vec[2], length), RDiv(vec[3], length)>>

-----------------------------------------------------------------------------
(* utils/matrixOperations.cpp.  A matrix is a sequence of 16 numbers; the  *)
(* code's element i (0-based) is element i + 1 here.                       *)

getIdentityMat4 ==
    << R(1), R(0), R(0), R(0),
       R(0), R(1), R(0), R(0),
       R(0), R(0), R(1), R(0),
       R(0), R(0), R(0), R(1) >>

ZeroMat4 ==
    << R(0), R(0), R(0), R(0),
       R(0), R(0), R(0), R(0),
       R(0), R(0), R(0), R(0),
       R(0), R(0), R(0), R(0) >>

translateMatrix(mat, x, y, z) ==
    [mat EXCEPT ![13] = RAdd(@, x), ![14] = RAdd(@, y), ![15] = RAdd(@, z)]

multiplyMatrix(mat1, mat2) ==
    LET result(i) ==
            LET row == (i - 1) \div 4
                col == (i - 1) % 4
                Term(k) == RMul(mat1[row * 4 + k + 1], mat2[k * 4 + col + 1])
            IN  RAdd(RAdd(RAdd(RAdd(R(0), Term(0)), Term(1)), Term(2)), Term(3))
    IN  << result(1),  result(2),  result(3),  result(4),
           result(5),  result(6),  result(7),  result(8),
           result(9),  result(10), result(11), result(12),
           result(13), result(14), result(15), result(16) >>

scaleMatrix(matrix, scaleFactor) ==
    [matrix EXCEPT ![1]  = RMul(@, scaleFactor),
                   ![6]  = RMul(@, scaleFactor),
                   ![11] = RMul(@, scaleFactor),
                   ![13] = RMul(@, scaleFactor),
                   ![14] = RMul(@, scaleFactor),
                   ![15] = RMul(@, scaleFactor)]

\* An angle is a float, held as a whole number: a small k stands for the
\* float that is k quarter turns when read in radians (k.pi/2), and Float(n)
\* for the float n itself, which is no whole number of quarter turns in
\* radians unless n = 0.
Float(n) == 1000 + n

IsFloat(angle) == angle >= Float(0)

FloatValue(angle) == angle - Float(0)

FloatValues == {90, 180, 360}

\* std::cos and std::sin of n radians, to three decimals.
CosOfFloat(n) ==
    CASE n = 90  -> Frac(-448, 1000)
      [] n = 180 -> Frac(-598, 1000)
      [] n = 360 -> Frac(-284, 1000)

SinOfFloat(n) ==
    CASE n = 90  -> Frac(894, 1000)
      [] n = 180 -> Frac(-801, 1000)
      [] n = 360 -> Frac(959, 1000)

\* std::cos and std::sin of `angle`, taken in radians.
Cos(angle) ==
    IF IsFloat(angle)
    THEN CosOfFloat(FloatValue(angle))
    ELSE LET q == angle % 4 IN IF q = 0 THEN R(1) ELSE IF q = 2 THEN R(-1) ELSE R(0)

Sin(angle) ==
    IF IsFloat(angle)
    THEN SinOfFloat(FloatValue(angle))
    ELSE LET q == angle % 4 IN IF q = 1 THEN R(1) ELSE IF q = 3 THEN R(-1) ELSE R(0)

\* utils.hpp toRadians, x * (M_PI / 180), on the floats that are whole
\* multiples of 90: 90 k degrees are k quarter turns.
toRadians(x) == FloatValue(x) \div 90

getRotationMatrixY(angle) ==
    LET c == Cos(angle)
        s == Sin(angle)
    IN  << c,       R(0), s,    R(0),
           R(0),    R(1), R(0), R(0),
           RNeg(s), R(0), c,    R(0),
           R(0),    R(0), R(0), R(1) >>

\* The projection matrix, kept as the arguments it is computed from.
getPerspective(fov, aspectRatio, near, far) ==
    [fov |-> fov, aspectRatio |-> aspectRatio, near |-> near, far |-> far]

-----------------------------------------------------------------------------
(* core/Camera.hpp, core/Camera.cpp                                        *)

NEAR == 1

FAR == 10

WIDTH == 1980

HEIGHT == 1080

SENSITIVITY == Frac(1, 10)

CameraDirection == {"NONE", "FORWARD", "BACKWARD", "LEFT", "RIGHT", "UP", "DOWN"}

\* A camera position: `base` plus, for each basis vector v the camera moved
\* along, k.v (the basis vectors are kept as the yaw and pitch they were
\* computed from, see updateCameraVectors).
Position(base) == [base |-> base, along |-> {}]

addAlong(position, vec, x) ==
    LET old == {t \in position.along : t.vec = vec}
        k   == IF old = {} THEN x ELSE RAdd((CHOOSE t \in old : TRUE).k, x)
    IN  [position EXCEPT !.along =
            (@ \ old) \cup (IF k = R(0) THEN {} ELSE {[vec |-> vec, k |-> k]})]

addBase(position, vec) == [position EXCEPT !.base = addVec(@, vec)]

updateCameraVectors(cam) ==
    [cam EXCEPT
        !.m_camDirection = [of |-> "direction", yaw |-> cam.m_yaw, pitch |-> cam.m_pitch],
        !.m_camRight     = [of |-> "right",     yaw |-> cam.m_yaw, pitch |-> cam.m_pitch],
        !.m_camUp        = [of |-> "up",        yaw |-> cam.m_yaw, pitch |-> cam.m_pitch]]

lookAt(cam) ==
    [forward |-> cam.m_camDirection, worldUp |-> cam.m_worldUp,
     position |-> cam.m_camPosition]

Camera(position, target, worldUp) ==
    LET fields == [m_camPosition  |-> Position(position),
                   m_targetPos    |-> target,
                   m_worldUp      |-> worldUp,
                   m_yaw          |-> R(-90),
                   m_pitch        |-> R(0),
                   m_speed        |-> Frac(5, 2),
                   m_fov          |-> R(45),
                   m_aspectRatio  |-> R(WIDTH \div HEIGHT),
                   m_camDirection |-> [of |-> "direction", yaw |-> R(0), pitch |-> R(0)],
                   m_camRight     |-> [of |-> "right", yaw |-> R(0), pitch |-> R(0)],
                   m_camUp        |-> [of |-> "up", yaw |-> R(0), pitch |-> R(0)],
                   m_view         |-> [forward  |-> [of |-> "direction", yaw |-> R(0), pitch |-> R(0)],
                                       worldUp  |-> worldUp,
                                       position |-> Position(position)],
                   m_projection   |-> getPerspective(R(0), R(0), R(NEAR), R(FAR))]
        withVectors == updateCameraVectors(fields)
        withView    == [withVectors EXCEPT !.m_view = lookAt(withVectors)]
    IN  [withView EXCEPT !.m_projection =
            getPerspective(withView.m_fov, withView.m_aspectRatio, R(NEAR), R(FAR))]

getCamView(cam) == [cam EXCEPT !.m_view = lookAt(cam)]

getCamProjection(cam) == cam.m_projection

\* updateCameraDirection without the `else if (m_pitch < -89.0f)` branch.
updateCameraDirection_noLowerClamp(cam, dx, dy) ==
    LET yaw     == RAdd(cam.m_yaw, RMul(dx, SENSITIVITY))
        pitch   == RSub(cam.m_pitch, RMul(dy, SENSITIVITY))
        clamped == IF RGt(pitch, R(89)) THEN R(89) ELSE pitch
    IN  updateCameraVectors([cam EXCEPT !.m_yaw = yaw, !.m_pitch = clamped])

updateCameraDirection(cam, dx, dy) ==
    LET yaw     == RAdd(cam.m_yaw, RMul(dx, SENSITIVITY))
        pitch   == RSub(cam.m_pitch, RMul(dy, SENSITIVITY))
        clamped == IF RGt(pitch, R(89)) THEN R(89)
                   ELSE IF RLt(pitch, R(-89)) THEN R(-89)
                   ELSE pitch
    IN  updateCameraVectors([cam EXCEPT !.m_yaw = yaw, !.m_pitch = clamped])

\* updateCameraPos narrowing the field of view as the camera moves forward.
updateCameraPos_narrows(cam, dir, dt) ==
    LET velocity == RMul(dt, cam.m_speed)
    IN  IF dir = "FORWARD"
        THEN [cam EXCEPT !.m_camPosition = addAlong(@, cam.m_camDirection, velocity),
                         !.m_fov = RSub(@, velocity),
                         !.m_projection = getPerspective(RSub(cam.m_fov, velocity),
                                                         cam.m_aspectRatio, R(NEAR), R(FAR))]
        ELSE cam

\* updateCameraPos moving UP and DOWN along the camera's own up vector.
updateCameraPos_alongCamUp(cam, dir, dt) ==
    LET velocity == RMul(dt, cam.m_speed)
    IN  CASE dir = "FORWARD"  ->
               [cam EXCEPT !.m_camPosition = addAlong(@, cam.m_camDirection, velocity)]
          [] dir = "BACKWARD" ->
               [cam EXCEPT !.m_camPosition = addAlong(@, cam.m_camDirection, RNeg(velocity))]
          [] dir = "RIGHT"    ->
               [cam EXCEPT !.m_camPosition = addAlong(@, cam.m_camRight, velocity)]
          [] dir = "LEFT"     ->
               [cam EXCEPT !.m_camPosition = addAlong(@, cam.m_camRight, RNeg(velocity))]
          [] dir = "UP"       ->
               [cam EXCEPT !.m_camPosition = addAlong(@, cam.m_camUp, velocity)]
          [] dir = "DOWN"     ->
               [cam EXCEPT !.m_camPosition = addAlong(@, cam.m_camUp, RNeg(velocity))]
          [] dir = "NONE"     -> cam

updateCameraPos(cam, dir, dt) ==
    LET velocity == RMul(dt, cam.m_speed)
    IN  CASE dir = "FORWARD"  ->
               [cam EXCEPT !.m_camPosition = addAlong(@, cam.m_camDirection, velocity)]
          [] dir = "BACKWARD" ->
               [cam EXCEPT !.m_camPosition = addAlong(@, cam.m_camDirection, RNeg(velocity))]
          [] dir = "RIGHT"    ->
               [cam EXCEPT !.m_camPosition = addAlong(@, cam.m_camRight, velocity)]
          [] dir = "LEFT"     ->
               [cam EXCEPT !.m_camPosition = addAlong(@, cam.m_camRight, RNeg(velocity))]
          [] dir = "UP"       ->
               [cam EXCEPT !.m_camPosition =
                    addBase(@, multiplyVecByFloat(cam.m_worldUp, velocity))]
          [] dir = "DOWN"     ->
               [cam EXCEPT !.m_camPosition =
                    addBase(@, multiplyVecByFloat(cam.m_worldUp, RNeg(velocity)))]
          [] dir = "NONE"     -> cam

updateCameraZoom(cam, dy) ==
    LET fov == IF RGe(cam.m_fov, R(1)) /\ RLe(cam.m_fov, R(45)) THEN RSub(cam.m_fov, dy)
               ELSE IF RLt(cam.m_fov, R(1)) THEN R(1)
               ELSE R(45)
    IN  [cam EXCEPT !.m_fov = fov,
                    !.m_projection = getPerspective(fov, cam.m_aspectRatio, R(NEAR), R(FAR))]

-----------------------------------------------------------------------------
(* textures/Material.hpp, textures/Material.cpp                            *)

\* `new Material()` value-initializes m_params: every number is zero.
NewMaterialParams ==
    [name |-> "", Ns |-> R(0), Ka |-> ZeroVec, Kd |-> ZeroVec, Ks |-> ZeroVec,
     Ke |-> ZeroVec, Ni |-> R(0), opacity |-> R(0), illum |-> R(0)]

\* One non-empty, non-comment line of a material file: its first word and
\* the values that follow it.
MaterialLine(m_params, line) ==
    CASE line.prefix = "newmtl" -> [m_params EXCEPT !.name = line.name]
      [] line.prefix = "Ns"     -> [m_params EXCEPT !.Ns = line.args[1]]
      [] line.prefix = "Ka"     -> [m_params EXCEPT !.Ka = line.args]
      [] line.prefix = "Kd"     -> [m_params EXCEPT !.Kd = line.args]
      [] line.prefix = "Ks"     -> [m_params EXCEPT !.Ks = line.args]
      [] line.prefix = "Ke"     -> [m_params EXCEPT !.Ke = line.args]
      [] line.prefix = "Ni"     -> [m_params EXCEPT !.Ni = line.args[1]]
      [] line.prefix = "d"      -> [m_params EXCEPT !.opacity = line.args[1]]
      [] line.prefix = "illum"  -> [m_params EXCEPT !.illum = line.args[1]]
      [] OTHER                  -> m_params

RECURSIVE MaterialLines(_, _)
MaterialLines(m_params, lines) ==
    IF lines = <<>> THEN m_params
    ELSE MaterialLines(MaterialLine(m_params, Head(lines)), Tail(lines))

\* Material::parseFile: the result and the parameters it leaves.
Material_parseFile(m_params, file) ==
    IF ~file.opens THEN [ok |-> FALSE, m_params |-> m_params]
    ELSE [ok |-> TRUE, m_params |-> MaterialLines(m_params, file.lines)]

setDefaultParams(m_params) ==
    [m_params EXCEPT !.name    = "defaultParamsSettings",
                     !.Ns      = R(10),
                     !.Ka      = Vec3(0, 0, 0),
                     !.Kd      = <<Frac(8, 10), Frac(8, 10), Frac(8, 10)>>,
                     !.Ks      = Vec3(0, 0, 0),
                     !.Ke      = Vec3(0, 0, 0),
                     !.opacity = R(1),
                     !.Ni      = R(1),
                     !.illum   = R(2)]

Material_create(file) ==
    LET parsed == Material_parseFile(NewMaterialParams, file)
    IN  IF ~parsed.ok THEN setDefaultParams(parsed.m_params) ELSE parsed.m_params

-----------------------------------------------------------------------------
(* core/Object.hpp, core/Object.cpp: loading                               *)

MOVE_SPEED == 2

\* An `unsigned int` is held as the signed integer with the same 32 bits:
\* 4294967295 is -1, and so on downwards.  UIntDec is `index - 1` in that
\* type and UIntLess its `<`.
UIntDec(index) == IF index = 0 THEN -1 ELSE index - 1

UIntLess(a, b) == IF (a < 0) = (b < 0) THEN a < b ELSE b < 0

\* `new Object()` value-initializes the instance.
NewObject ==
    [m_vertices          |-> <<>>,
     m_indices           |-> <<>>,
     m_center            |-> ZeroVec,
     m_translationMatrix |-> ZeroMat4,
     m_rotationMatrix    |-> ZeroMat4,
     m_matrix            |-> ZeroMat4,
     m_texture2D         |-> "",
     m_scaleFactor       |-> R(0),
     m_VBO               |-> [set |-> FALSE, data |-> <<>>],
     m_IBO               |-> [set |-> FALSE, data |-> <<>>],
     m_material          |-> [set |-> FALSE, m_params |-> NewMaterialParams]]

\* `while (ss >> index) indices.push_back(index - 1)` on the words of a face
\* line.  A word is a number n, possibly followed by other characters
\* (junk, as in "3/1/2"): the number is read, the next read fails.
RECURSIVE ReadIndices(_)
ReadIndices(words) ==
    IF words = <<>> THEN <<>>
    ELSE LET w == Head(words)
             index == UIntDec(w.n)
         IN  IF w.junk THEN <<index>> ELSE <<index>> \o ReadIndices(Tail(words))

\* ParseLine with a quad split as a strip, (0,1,2) and (1,2,3), instead of
\* the fan.
ParseLine_quadAsStrip(o, line) ==
    IF line.prefix = "v" THEN
        [o EXCEPT !.m_vertices = Append(@,
            [position |-> line.args, uv |-> <<R(0), R(0)>>, normal |-> ZeroVec])]
    ELSE IF line.prefix = "f" THEN
        LET indices == ReadIndices(line.args)
        IN  IF Len(indices) = 3 THEN
                [o EXCEPT !.m_indices = @ \o <<indices[1], indices[2], indices[3]>>]
            ELSE IF Len(indices) = 4 THEN
                [o EXCEPT !.m_indices = @ \o <<indices[1], indices[2], indices[3],
                                               indices[2], indices[3], indices[4]>>]
            ELSE o
    ELSE o

\* The body of parseFile's loop for one line.
ParseLine(o, line) ==
    IF line.prefix = "v" THEN
        [o EXCEPT !.m_vertices = Append(@,
            [position |-> line.args, uv |-> <<R(0), R(0)>>, normal |-> ZeroVec])]
    ELSE IF line.prefix = "f" THEN
        LET indices == ReadIndices(line.args)
        IN  IF Len(indices) = 3 THEN
                [o EXCEPT !.m_indices = @ \o <<indices[1], indices[2], indices[3]>>]
            ELSE IF Len(indices) = 4 THEN
                [o EXCEPT !.m_indices = @ \o <<indices[1], indices[2], indices[3],
                                               indices[1], indices[3], indices[4]>>]
            ELSE o
    ELSE o

RECURSIVE MinOf(_, _, _)
MinOf(vs, k, i) ==
    IF i > Len(vs) THEN vs[1].position[k]
    ELSE LET rest == MinOf(vs, k, i + 1)
         IN  IF RLt(vs[i].position[k], rest) THEN vs[i].position[k] ELSE rest

RECURSIVE MaxOf(_, _, _)
MaxOf(vs, k, i) ==
    IF i > Len(vs) THEN vs[1].position[k]
    ELSE LET rest == MaxOf(vs, k, i + 1)
         IN  IF RGt(vs[i].position[k], rest) THEN vs[i].position[k] ELSE rest

\* calculateUV_XY dividing by the maximum in place of the extent.
calculateUV_XY_byMaximum(m_vertices) ==
    IF m_vertices = <<>> THEN m_vertices
    ELSE LET minX == MinOf(m_vertices, 1, 1)
             maxX == MaxOf(m_vertices, 1, 1)
             minY == MinOf(m_vertices, 2, 1)
             maxY == MaxOf(m_vertices, 2, 1)
         IN  [i \in 1..Len(m_vertices) |->
                [m_vertices[i] EXCEPT !.uv =
                    << RDiv(RSub(m_vertices[i].position[1], minX), maxX),
                       RDiv(RSub(m_vertices[i].position[2], minY), maxY) >>]]

calculateUV_XY(m_vertices) ==
    IF m_vertices = <<>> THEN m_vertices
    ELSE LET minX == MinOf(m_vertices, 1, 1)
             maxX == MaxOf(m_vertices, 1, 1)
             minY == MinOf(m_vertices, 2, 1)
             maxY == MaxOf(m_vertices, 2, 1)
         IN  [i \in 1..Len(m_vertices) |->
                [m_vertices[i] EXCEPT !.uv =
                    << RDiv(RSub(m_vertices[i].position[1], minX), RSub(maxX, minX)),
                       RDiv(RSub(m_vertices[i].position[2], minY), RSub(maxY, minY)) >>]]

\* Whether every index names a vertex: computeNormals reads and writes
\* m_vertices[index] unchecked.
IndicesInRange(o) ==
    \A i \in 1..Len(o.m_indices) : UIntLess(o.m_indices[i], Len(o.m_vertices))

faceNormal(m_vertices, i0, i1, i2) ==
    LET v0 == m_vertices[i0 + 1].position
        v1 == m_vertices[i1 + 1].position
        v2 == m_vertices[i2 + 1].position
        edge1 == subtractVec(v1, v0)
        edge2 == subtractVec(v2, v0)
    IN  normalizeVec(crossProdVec(edge1, edge2))

addNormal(m_vertices, idx, n) ==
    [m_vertices EXCEPT ![idx + 1].normal = addVec(@, n)]

\* The loop of computeNormals over the triangles from position i on.
RECURSIVE accumulateNormals(_, _, _)
accumulateNormals(m_vertices, m_indices, i) ==
    IF i > Len(m_indices) THEN m_vertices
    ELSE LET i0 == m_indices[i]
             i1 == m_indices[i + 1]
             i2 == m_indices[i + 2]
             n  == faceNormal(m_vertices, i0, i1, i2)
         IN  accumulateNormals(
                addNormal(addNormal(addNormal(m_vertices, i0, n), i1, n), i2, n),
                m_indices, i + 3)

\* computeNormals where every index is in range.
computeNormals(m_vertices, m_indices) ==
    LET zeroed == [i \in 1..Len(m_vertices) |-> [m_vertices[i] EXCEPT !.normal = ZeroVec]]
        summed == accumulateNormals(zeroed, m_indices, 1)
    IN  [i \in 1..Len(summed) |-> [summed[i] EXCEPT !.normal = normalizeVec(@)]]

\* The float nearest to a number, ties to the even mantissa (24 bits).  Whole
\* numbers up to 2^27 in magnitude are rounded as the machine rounds them;
\* the other numbers met here are kept as they are.
FloatSpacing(n) ==
    IF Abs(n) <= 2^24 THEN 1
    ELSE IF Abs(n) <= 2^25 THEN 2
    ELSE IF Abs(n) <= 2^26 THEN 4 ELSE 8

FloatRound(x) ==
    IF x[2] # 1 THEN x
    ELSE LET e == FloatSpacing(x[1])
             q == x[1] \div e
             r == x[1] % e
         IN  IF 2 * r < e THEN R(q * e)
             ELSE IF 2 * r > e THEN R((q + 1) * e)
             ELSE IF q % 2 = 0 THEN R(q * e) ELSE R((q + 1) * e)

\* calculateCenter's `sum += v.position[k]` over the first i vertices, in
\* their order.
RECURSIVE SumOf(_, _, _)
SumOf(vs, k, i) ==
    IF i = 0 THEN R(0)
    ELSE FloatRound(RAdd(SumOf(vs, k, i - 1), vs[i].position[k]))

\* calculateCenter returning the middle of the bounding box in place of the
\* mean of the vertices.
calculateCenter_boxMiddle(m_vertices) ==
    << RDiv(RAdd(MinOf(m_vertices, 1, 1), MaxOf(m_vertices, 1, 1)), R(2)),
       RDiv(RAdd(MinOf(m_vertices, 2, 1), MaxOf(m_vertices, 2, 1)), R(2)),
       RDiv(RAdd(MinOf(m_vertices, 3, 1), MaxOf(m_vertices, 3, 1)), R(2)) >>

calculateCenter(m_vertices) ==
    LET count == R(Len(m_vertices))
    IN  << RDiv(SumOf(m_vertices, 1, Len(m_vertices)), count),
           RDiv(SumOf(m_vertices, 2, Len(m_vertices)), count),
           RDiv(SumOf(m_vertices, 3, Len(m_vertices)), count) >>

RMax(a, b) == IF RLt(a, b) THEN b ELSE a

\* calculateScale returning the extent along X in place of the largest of
\* the three.
calculateScale_extentX(m_vertices) ==
    IF m_vertices = <<>> THEN R(0)
    ELSE RSub(MaxOf(m_vertices, 1, 1), MinOf(m_vertices, 1, 1))

calculateScale(m_vertices) ==
    IF m_vertices = <<>> THEN R(0)
    ELSE LET sizeX == RSub(MaxOf(m_vertices, 1, 1), MinOf(m_vertices, 1, 1))
             sizeY == RSub(MaxOf(m_vertices, 2, 1), MinOf(m_vertices, 2, 1))
             sizeZ == RSub(MaxOf(m_vertices, 3, 1), MinOf(m_vertices, 3, 1))
         IN  RMax(RMax(sizeX, sizeY), sizeZ)

initBuffers(o) ==
    [o EXCEPT !.m_VBO = [set |-> TRUE, data |-> o.m_vertices],
              !.m_IBO = [set |-> TRUE, data |-> o.m_indices]]

\* Object::create from the return of parseFile (0) on: lines 36-46.
finishCreate(o, mtlFile) ==
    LET buffered == initBuffers(o)
    IN  [buffered EXCEPT
            !.m_center            = calculateCenter(o.m_vertices),
            !.m_scaleFactor       = RDiv(R(1), calculateScale(o.m_vertices)),
            !.m_matrix            = getIdentityMat4,
            !.m_translationMatrix = getIdentityMat4,
            !.m_rotationMatrix    = getIdentityMat4,
            !.m_material          = [set |-> TRUE, m_params |-> Material_create(mtlFile)]]

\* What computeNormals may leave in the normals once it has read or written
\* outside m_vertices (undefined behaviour): any values; here every normal
\* is left as one of the two below.
GarbageNormals == {ZeroVec, Vec3(0, 0, 1)}

\* parseFileEnd without the test of line 245 for an empty mesh.
parseFileEnd_noEmptyCheck(o) ==
    LET projected == calculateUV_XY(o.m_vertices)
    IN  IF IndicesInRange(o)
        THEN {[crashed |-> FALSE, ret |-> 0,
               o |-> [o EXCEPT !.m_vertices = computeNormals(projected, o.m_indices)]]}
        ELSE {[crashed |-> TRUE, ret |-> 0, o |-> o]}
             \cup
             {[crashed |-> FALSE, ret |-> 0,
               o |-> [o EXCEPT !.m_vertices =
                        [i \in 1..Len(projected) |->
                           [projected[i] EXCEPT !.normal = g]]]] :
              g \in GarbageNormals}

\* parseFileEnd returning 2, not 1, for an empty mesh.
parseFileEnd_emptyReturnsTwo(o) ==
    IF o.m_vertices = <<>> \/ o.m_indices = <<>>
    THEN {[crashed |-> FALSE, ret |-> 2, o |-> o]}
    ELSE LET projected == calculateUV_XY(o.m_vertices)
         IN  IF IndicesInRange(o)
             THEN {[crashed |-> FALSE, ret |-> 0,
                    o |-> [o EXCEPT !.m_vertices = computeNormals(projected, o.m_indices)]]}
             ELSE {[crashed |-> TRUE, ret |-> 0, o |-> o]}
                  \cup
                  {[crashed |-> FALSE, ret |-> 0,
                    o |-> [o EXCEPT !.m_vertices =
                             [i \in 1..Len(projected) |->
                                [projected[i] EXCEPT !.normal = g]]]] :
                   g \in GarbageNormals}

\* parseFile from the end of its loop on (lines 245-249): the possible
\* outcomes, each the value returned (or a crash) and the object left.
parseFileEnd(o) ==
    IF o.m_vertices = <<>> \/ o.m_indices = <<>>
    THEN {[crashed |-> FALSE, ret |-> 1, o |-> o]}
    ELSE LET projected == calculateUV_XY(o.m_vertices)
         IN  IF IndicesInRange(o)
             THEN {[crashed |-> FALSE, ret |-> 0,
                    o |-> [o EXCEPT !.m_vertices = computeNormals(projected, o.m_indices)]]}
             ELSE {[crashed |-> TRUE, ret |-> 0, o |-> o]}
                  \cup
                  {[crashed |-> FALSE, ret |-> 0,
                    o |-> [o EXCEPT !.m_vertices =
                             [i \in 1..Len(projected) |->
                                [projected[i] EXCEPT !.normal = g]]]] :
                   g \in GarbageNormals}

RECURSIVE parseFileLoop(_, _)
parseFileLoop(o, lines) ==
    IF lines = <<>> THEN o ELSE parseFileLoop(ParseLine(o, Head(lines)), Tail(lines))

\* Object::parseFile on a whole file: its possible outcomes.
parseFile(o, file) ==
    IF ~file.opens THEN {[crashed |-> FALSE, ret |-> 1, o |-> o]}
    ELSE parseFileEnd(parseFileLoop(o, file.lines))

\* Object::create given an outcome of parseFile: what the caller gets.
createResult(outcome, mtlFile) ==
    IF outcome.crashed THEN [crashed |-> TRUE, ptr |-> "nullptr", o |-> outcome.o]
    ELSE IF outcome.ret # 0 THEN [crashed |-> FALSE, ptr |-> "nullptr", o |-> outcome.o]
    ELSE [crashed |-> FALSE, ptr |-> "object", o |-> finishCreate(outcome.o, mtlFile)]

\* Object::create on a whole file: its possible outcomes.
Object_create(file, mtlFile) ==
    {createResult(outcome, mtlFile) : outcome \in parseFile(NewObject, file)}

-----------------------------------------------------------------------------
(* core/Object.cpp: the transform                                          *)

\* updateRotationMatrixY storing the turn about the center in place of the
\* product with the rotation so far.
updateRotationMatrixY_overwrite(o, angle) ==
    LET centeredMatrix  == translateMatrix(getIdentityMat4, RNeg(o.m_center[1]),
                                           RNeg(o.m_center[2]), RNeg(o.m_center[3]))
        rotationMatrix  == getRotationMatrixY(angle)
        originMatrix    == translateMatrix(getIdentityMat4, o.m_center[1],
                                           o.m_center[2], o.m_center[3])
        rotAroundCenter == multiplyMatrix(centeredMatrix,
                                          multiplyMatrix(rotationMatrix, originMatrix))
    IN  [o EXCEPT !.m_rotationMatrix = rotAroundCenter]

updateRotationMatrixY(o, angle) ==
    LET centeredMatrix  == translateMatrix(getIdentityMat4, RNeg(o.m_center[1]),
                                           RNeg(o.m_center[2]), RNeg(o.m_center[3]))
        rotationMatrix  == getRotationMatrixY(angle)
        originMatrix    == translateMatrix(getIdentityMat4, o.m_center[1],
                                           o.m_center[2], o.m_center[3])
        rotAroundCenter == multiplyMatrix(centeredMatrix,
                                          multiplyMatrix(rotationMatrix, originMatrix))
    IN  [o EXCEPT !.m_rotationMatrix = multiplyMatrix(rotAroundCenter, o.m_rotationMatrix)]

\* moveXaxis moving the center along with the object.
moveXaxis_movesCenter(o, direction, dt) ==
    [o EXCEPT !.m_translationMatrix[13] = RAdd(@, RMul(RMul(R(MOVE_SPEED), direction), dt)),
              !.m_center[1] = RAdd(@, RMul(RMul(R(MOVE_SPEED), direction), dt))]

moveXaxis(o, direction, dt) ==
    [o EXCEPT !.m_translationMatrix[13] = RAdd(@, RMul(RMul(R(MOVE_SPEED), direction), dt))]

\* moveYaxis adding to the slot moveXaxis adds to.
moveYaxis_alongX(o, direction, dt) ==
    [o EXCEPT !.m_translationMatrix[13] = RAdd(@, RMul(RMul(R(MOVE_SPEED), direction), dt))]

moveYaxis(o, direction, dt) ==
    [o EXCEPT !.m_translationMatrix[14] = RAdd(@, RMul(RMul(R(MOVE_SPEED), direction), dt))]

moveZaxis(o, direction, dt) ==
    [o EXCEPT !.m_translationMatrix[15] = RAdd(@, RMul(RMul(R(MOVE_SPEED), direction), dt))]

\* getMatrix starting from the matrix it stored last in place of the
\* identity.
getMatrix_fromStored(o) ==
    LET m1 == translateMatrix(o.m_matrix, RNeg(o.m_center[1]),
                              RNeg(o.m_center[2]), RNeg(o.m_center[3]))
        m2 == scaleMatrix(m1, o.m_scaleFactor)
        m3 == multiplyMatrix(m2, o.m_translationMatrix)
        m4 == multiplyMatrix(o.m_rotationMatrix, m3)
    IN  [o EXCEPT !.m_matrix = m4]

\* getMatrix stores what it returns in m_matrix.
getMatrix(o) ==
    LET m1 == translateMatrix(getIdentityMat4, RNeg(o.m_center[1]),
                              RNeg(o.m_center[2]), RNeg(o.m_center[3]))
        m2 == scaleMatrix(m1, o.m_scaleFactor)
        m3 == multiplyMatrix(m2, o.m_translationMatrix)
        m4 == multiplyMatrix(o.m_rotationMatrix, m3)
    IN  [o EXCEPT !.m_matrix = m4]

getPosition(o) ==
    <<o.m_translationMatrix[13], o.m_translationMatrix[14], o.m_translationMatrix[15]>>

-----------------------------------------------------------------------------
(* TextureManager and Shader::findLoc.  A texture object is the name       *)
(* glGenTextures gave it and the path it was read from; the graphics API   *)
(* is the number of textures it has generated, the uniform names it has    *)
(* been asked for, in order, and the program the shader linked.            *)

\* A null shared_ptr<Texture2D>.
NullTexture == [m_id |-> 0, m_path |-> ""]

\* The uniforms Renderer::setUniforms, Material::apply and Renderer::draw
\* set, in the order they set them.
DrawUniforms ==
    <<"uModel", "uView", "uProjection", "uCameraPos", "aTexture",
      "uKa", "uKd", "uKs", "uNs", "uColorMix">>

\* The locations of the linked program's uniforms.
LinkedProgram == [k \in 1..Len(DrawUniforms) |-> DrawUniforms[k]]

\* glGetUniformLocation: the location of a uniform of the program, -1 for
\* any other name.
glGetUniformLocation(g, name) ==
    IF \E k \in DOMAIN g.program : g.program[k] = name
    THEN (CHOOSE k \in DOMAIN g.program : g.program[k] = name) - 1
    ELSE -1

\* The graphics API before any of these calls.
NewGL == [textures |-> 0, uniformQueries |-> <<>>, program |-> LinkedProgram]

\* The path main is given as its second argument.
Argv2 == "texture"

\* TextureManager::TextureManager.
TextureManager == [m_textures2D |-> <<>>, m_slots |-> <<>>, m_nextSlot |-> 0]

\* Texture2D::create: when the image file loads, a new texture with the
\* next name glGenTextures gives.
Texture2D_create(g, path, fileLoads) ==
    IF ~fileLoads THEN [gl |-> g, tex |-> NullTexture]
    ELSE [gl  |-> [g EXCEPT !.textures = @ + 1],
          tex |-> [m_id |-> g.textures + 1, m_path |-> path]]

\* loadTexture2D that stores a texture again when its path is already held.
loadTexture2D_again(tm, g, path, fileLoads) ==
    LET made == Texture2D_create(g, path, fileLoads)
    IN  IF made.tex = NullTexture THEN [tm |-> tm, gl |-> made.gl, tex |-> NullTexture]
        ELSE [tm  |-> [m_textures2D |-> (path :> made.tex) @@ tm.m_textures2D,
                       m_slots      |-> (path :> tm.m_nextSlot) @@ tm.m_slots,
                       m_nextSlot   |-> tm.m_nextSlot + 1],
              gl  |-> made.gl,
              tex |-> made.tex]

\* TextureManager::loadTexture2D: the manager and the graphics API after
\* the call, and the texture returned.
loadTexture2D(tm, g, path, fileLoads) ==
    IF path \in DOMAIN tm.m_textures2D
    THEN [tm |-> tm, gl |-> g, tex |-> tm.m_textures2D[path]]
    ELSE LET made == Texture2D_create(g, path, fileLoads)
         IN  IF made.tex = NullTexture
             THEN [tm |-> tm, gl |-> made.gl, tex |-> NullTexture]
             ELSE [tm  |-> [m_textures2D |-> (path :> made.tex) @@ tm.m_textures2D,
                            m_slots      |-> (path :> tm.m_nextSlot) @@ tm.m_slots,
                            m_nextSlot   |-> tm.m_nextSlot + 1],
                   gl  |-> made.gl,
                   tex |-> made.tex]

\* TextureManager::getSlot: slot 0 for a path that was not loaded.
getSlot(tm, path) ==
    IF path \in DOMAIN tm.m_slots THEN tm.m_slots[path] ELSE 0

\* Shader::Shader: the cache is empty.
NewShader == [m_uniformCache |-> <<>>]

\* findLoc that asks the graphics API at every call.
findLoc_alwaysAsks(sh, g, name) ==
    LET location == glGetUniformLocation(g, name)
    IN  [shader   |-> [m_uniformCache |-> (name :> location) @@ sh.m_uniformCache],
         gl       |-> [g EXCEPT !.uniformQueries = Append(@, name)],
         location |-> location]

\* Shader::findLoc: the shader and the graphics API after the call, and the
\* location returned.
findLoc(sh, g, name) ==
    IF name \in DOMAIN sh.m_uniformCache
    THEN [shader |-> sh, gl |-> g, location |-> sh.m_uniformCache[name]]
    ELSE LET location == glGetUniformLocation(g, name)
         IN  [shader   |-> [m_uniformCache |-> (name :> location) @@ sh.m_uniformCache],
              gl       |-> [g EXCEPT !.uniformQueries = Append(@, name)],
              location |-> location]

\* The shader and the graphics API after the setters were called with the
\* first n of the names.
RECURSIVE setUniformsOf(_, _, _, _)
setUniformsOf(sh, g, names, n) ==
    IF n = 0 THEN [shader |-> sh, gl |-> g]
    ELSE LET before == setUniformsOf(sh, g, names, n - 1)
             found  == findLoc(before.shader, before.gl, names[n])
         IN  [shader |-> found.shader, gl |-> found.gl]

-----------------------------------------------------------------------------
(* The initial state: the statics as the program starts main.              *)

NoUniforms ==
    [frame |-> 0, uModel |-> ZeroMat4,
     uView |-> [forward  |-> [of |-> "direction", yaw |-> R(0), pitch |-> R(0)],
                worldUp  |-> ZeroVec,
                position |-> Position(ZeroVec)],
     uProjection |-> getPerspective(R(0), R(0), R(0), R(0)),
     uCameraPos |-> Position(ZeroVec), uColorMix |-> R(0)]

NoCall == [op |-> "none", args |-> <<>>]

Init ==
    /\ pc = "main"
    /\ exitCode = "none"
    /\ obj = NewObject
    /\ objectPtr = "unset"
    /\ gCamera = Camera(Vec3(0, 0, 2), Vec3(0, 0, 0), Vec3(0, 1, 0))
    /\ mouse = [firstMouse |-> TRUE, lastX |-> R(0), lastY |-> R(0)]
    /\ keysWas = [pWasPressed |-> FALSE, tWasPressed |-> FALSE]
    /\ renderer = [m_polygonMode |-> FALSE, m_colorMode |-> TRUE, rColorMix |-> R(1)]
    /\ window = [shouldClose |-> FALSE]
    /\ deltaTime = R(0)
    /\ frame = 0
    /\ uniforms = NoUniforms
    /\ gTextureManager = TextureManager
    /\ shader = NewShader
    /\ gl = NewGL
    /\ lastCall = NoCall

-----------------------------------------------------------------------------
(* SpecCam: the camera's operations, called in any order with any of the   *)
(* arguments below.                                                        *)

\* Scroll offsets, in the unit scrollCallback receives.
ZoomDeltas == {R(1), R(-1), R(1000), R(-1000)}

\* Cursor offsets <<dx, dy>> in pixels.
LookDeltas == {<<R(0), R(10000)>>, <<R(0), R(-10000)>>,
               <<R(900), R(-450)>>, <<R(-900), R(450)>>}

\* The camera is turned at most MaxTurn quarter turns of yaw away from its
\* initial heading.
MaxTurn == 1

RAbs(a) == <<Abs(a[1]), a[2]>>

CamInBounds(cam) == RLe(RAbs(RAdd(cam.m_yaw, R(90))), R(90 * MaxTurn))

CamUnchanged ==
    UNCHANGED <<Graphics, pc, exitCode, obj, objectPtr, mouse, keysWas, renderer, window,
                deltaTime, frame, uniforms>>

CamZoom(dy) ==
    /\ gCamera' = updateCameraZoom(gCamera, dy)
    /\ lastCall' = [op |-> "updateCameraZoom", args |-> <<dy>>]
    /\ CamUnchanged

CamLook(dx, dy) ==
    /\ CamInBounds(updateCameraDirection(gCamera, dx, dy))
    /\ gCamera' = updateCameraDirection(gCamera, dx, dy)
    /\ lastCall' = [op |-> "updateCameraDirection", args |-> <<dx, dy>>]
    /\ CamUnchanged

NextCam ==
    \/ \E dy \in ZoomDeltas : CamZoom(dy)
    \/ \E d \in LookDeltas : CamLook(d[1], d[2])

SpecCam == Init /\ [][NextCam]_vars

\* C2: after every call of updateCameraZoom the field of view is within
\* [1, 45], and the projection matrix was computed from that value.
C2_FovWithinLimits ==
    lastCall.op = "updateCameraZoom" =>
        /\ RGe(gCamera.m_fov, R(1))
        /\ RLe(gCamera.m_fov, R(45))
        /\ gCamera.m_projection.fov = gCamera.m_fov

\* C3: once zoom-in inputs of +1000 have brought the field of view to 1, a
\* further zoom-in of +1000 leaves it at 1; once zoom-out inputs of -1000
\* have brought it to 45, a further zoom-out of -1000 leaves it at 45.
C3_ZoomSaturates ==
    [][ /\ (/\ lastCall = [op |-> "updateCameraZoom", args |-> <<R(1000)>>]
            /\ gCamera.m_fov = R(1)
            /\ lastCall' = [op |-> "updateCameraZoom", args |-> <<R(1000)>>])
           => gCamera'.m_fov = R(1)
        /\ (/\ lastCall = [op |-> "updateCameraZoom", args |-> <<R(-1000)>>]
            /\ gCamera.m_fov = R(45)
            /\ lastCall' = [op |-> "updateCameraZoom", args |-> <<R(-1000)>>])
           => gCamera'.m_fov = R(45) ]_vars

\* C4: after any call of updateCameraDirection the pitch is within
\* [-89, 89]; after a look input of (0, +10000) it is exactly -89.
C4_PitchClamped ==
    lastCall.op = "updateCameraDirection" =>
        /\ RGe(gCamera.m_pitch, R(-89))
        /\ RLe(gCamera.m_pitch, R(89))
        /\ gCamera.m_camDirection.pitch = gCamera.m_pitch
        /\ lastCall.args = <<R(0), R(10000)>> => gCamera.m_pitch = R(-89)

\* A look input of (0, +10000) has been applied and the pitch stands at its
\* lower limit.
C4_LookFarDown ==
    /\ lastCall = [op |-> "updateCameraDirection", args |-> <<R(0), R(10000)>>]
    /\ gCamera.m_pitch = R(-89)

-----------------------------------------------------------------------------
(* main.cpp up to the frame loop, and Object::create read line by line.    *)

\* What main finds as it starts: a wrong argument count, a failure of
\* glfwInit, glfwCreateWindow or glewInit, or none of these.
Startups == {"usage", "initFailed", "ok"}

\* main lines 36-78.
MainStartup(found) ==
    /\ pc = "main"
    /\ IF found = "usage" THEN pc' = "exited" /\ exitCode' = "1"
       ELSE IF found = "initFailed" THEN pc' = "exited" /\ exitCode' = "-1"
       ELSE pc' = "create" /\ exitCode' = exitCode
    /\ UNCHANGED <<Graphics, obj, objectPtr, gCamera, mouse, keysWas, renderer, window,
                   deltaTime, frame, uniforms, lastCall>>

\* Object::create line 29 and parseFile lines 202-206: the file opens or not.
CreateOpen(opens) ==
    /\ pc = "create"
    /\ obj' = NewObject
    /\ IF opens THEN pc' = "parse" /\ objectPtr' = objectPtr
       ELSE pc' = "created" /\ objectPtr' = "nullptr"
    /\ lastCall' = [op |-> "open", args |-> <<opens>>]
    /\ UNCHANGED <<Graphics, exitCode, gCamera, mouse, keysWas, renderer, window,
                   deltaTime, frame, uniforms>>

\* The mesh is read up to MaxVerts vertices and MaxTris triangles.
MaxVerts == 3

MaxTris == 2

\* parseFile lines 209-244 for the next line of the file.
ReadLine(line) ==
    /\ pc = "parse"
    /\ Len(ParseLine(obj, line).m_vertices) <= MaxVerts
    /\ Len(ParseLine(obj, line).m_indices) <= 3 * MaxTris
    /\ obj' = ParseLine(obj, line)
    /\ lastCall' = [op |-> "parseLine", args |-> <<line>>]
    /\ UNCHANGED <<Graphics, pc, exitCode, objectPtr, gCamera, mouse, keysWas, renderer,
                   window, deltaTime, frame, uniforms>>

\* The end of the file: parseFile lines 245-249, then Object::create lines
\* 31-46 with the material file found beside the mesh.
EndOfFile(mtlFile) ==
    /\ pc = "parse"
    /\ \E outcome \in parseFileEnd(obj) :
          LET r == createResult(outcome, mtlFile)
          IN  /\ obj' = r.o
              /\ IF r.crashed THEN pc' = "crashed" /\ objectPtr' = objectPtr
                 ELSE pc' = "created" /\ objectPtr' = r.ptr
    /\ lastCall' = [op |-> "create", args |-> <<mtlFile>>]
    /\ UNCHANGED <<Graphics, exitCode, gCamera, mouse, keysWas, renderer, window,
                   deltaTime, frame, uniforms>>

\* MainLoaded without the test of lines 81-84 for a null object.
MainLoaded_noNullCheck(textureLoads) ==
    LET loaded == loadTexture2D(gTextureManager, gl, Argv2, textureLoads)
    IN  /\ pc = "created"
        /\ gTextureManager' = loaded.tm
        /\ gl' = loaded.gl
        /\ IF loaded.tex = NullTexture THEN
                pc' = "exited" /\ exitCode' = "1" /\ obj' = obj
           ELSE pc' = "loop" /\ exitCode' = exitCode
                /\ obj' = [obj EXCEPT !.m_texture2D = loaded.tex.m_path]
        /\ UNCHANGED <<shader, objectPtr, gCamera, mouse, keysWas, renderer, window,
                       deltaTime, frame, uniforms, lastCall>>

\* main lines 80-100: the check of what Object::create returned and the
\* texture load, up to the first test of the loop.
MainLoaded(textureLoads) ==
    LET loaded == loadTexture2D(gTextureManager, gl, Argv2, textureLoads)
    IN  /\ pc = "created"
        /\ IF objectPtr = "nullptr" THEN
                /\ pc' = "exited" /\ exitCode' = "1" /\ obj' = obj
                /\ UNCHANGED <<gTextureManager, gl>>
           ELSE /\ gTextureManager' = loaded.tm
                /\ gl' = loaded.gl
                /\ IF loaded.tex = NullTexture THEN
                        pc' = "exited" /\ exitCode' = "1" /\ obj' = obj
                   ELSE pc' = "loop" /\ exitCode' = exitCode
                        /\ obj' = [obj EXCEPT !.m_texture2D = loaded.tex.m_path]
        /\ UNCHANGED <<shader, objectPtr, gCamera, mouse, keysWas, renderer, window,
                       deltaTime, frame, uniforms, lastCall>>

\* The lines of the mesh files read: `v x y z` with the positions below,
\* `f` followed by words (a number, junk after it or not), and lines with
\* another first word.
VLine(x, y, z) == [prefix |-> "v", args |-> Vec3(x, y, z)]

W(n) == [n |-> n, junk |-> FALSE]

WJ(n) == [n |-> n, junk |-> TRUE]

FLine(words) == [prefix |-> "f", args |-> words]

VertexLines == {VLine(0, 0, 0), VLine(2, 0, 0), VLine(0, 4, 0)}

QuadLine == FLine(<<W(1), W(2), W(3), W(4)>>)

FaceLines ==
    { FLine(<<W(1), W(2), W(3)>>),
      QuadLine,
      FLine(<<W(0), W(1), W(2)>>),
      FLine(<<W(1), W(2)>>),
      FLine(<<W(1), W(2), W(3), W(1), W(2)>>),
      FLine(<<WJ(1), WJ(2), WJ(3)>>),
      FLine(<<W(3), W(2), WJ(1)>>) }

OtherLines == {[prefix |-> "vn", args |-> <<>>]}

\* The material files: none, or one with the lines below.
MLine(prefix, args) == [prefix |-> prefix, name |-> "", args |-> args]

NoMtlFile == [opens |-> FALSE, lines |-> <<>>]

MtlFiles ==
    { NoMtlFile,
      [opens |-> TRUE, lines |-> <<>>],
      [opens |-> TRUE, lines |-> <<MLine("map_Kd", <<>>)>>],
      [opens |-> TRUE, lines |-> <<[prefix |-> "newmtl", name |-> "Material", args |-> <<>>],
                                   MLine("Ns", <<R(96)>>),
                                   MLine("Kd", <<Frac(1, 2), Frac(1, 2), R(1)>>),
                                   MLine("d", <<R(1)>>),
                                   MLine("illum", <<R(2)>>)>>] }

NextParse ==
    \/ \E found \in Startups : MainStartup(found)
    \/ \E opens \in BOOLEAN : CreateOpen(opens)
    \/ \E line \in VertexLines : ReadLine(line)
    \/ \E line \in FaceLines : ReadLine(line)
    \/ \E line \in OtherLines : ReadLine(line)
    \/ \E mtlFile \in MtlFiles : EndOfFile(mtlFile)

SpecParse == Init /\ [][NextParse]_vars

\* C1: when parseFile accepts a mesh file, every stored index is less than
\* the number of vertices and the indices come in whole triangles.
C1_IndicesValid ==
    (pc = "created" /\ objectPtr = "object") =>
        /\ \A i \in 1..Len(obj.m_indices) :
              obj.m_indices[i] >= 0 /\ obj.m_indices[i] < Len(obj.m_vertices)
        /\ Len(obj.m_indices) % 3 = 0

\* C6: a mesh file that yields no vertices or no indices makes parseFile
\* fail, so that Object::create returns no object.
C6_EmptyMeshRejected ==
    pc = "created" =>
        /\ (obj.m_vertices = <<>> \/ obj.m_indices = <<>>) => objectPtr = "nullptr"
        /\ objectPtr = "object" => (Len(obj.m_vertices) >= 1 /\ Len(obj.m_indices) >= 3)

\* A readable file with vertex lines whose face lines contributed nothing
\* has been read to its end, and create returned no object.
C6_VerticesButNoFaces ==
    /\ pc = "created"
    /\ lastCall.op = "create"
    /\ objectPtr = "nullptr"
    /\ Len(obj.m_vertices) >= 1
    /\ obj.m_indices = <<>>

\* Whether a material file has a line with a directive parseFile knows.
HasDirective(mtlFile) ==
    \E i \in 1..Len(mtlFile.lines) :
        mtlFile.lines[i].prefix \in {"newmtl", "Ns", "Ka", "Kd", "Ks", "Ke", "Ni", "d", "illum"}

\* C8: when the material file is missing or has no recognised directive,
\* the object is constructed with the fallback material: ambient 0,
\* diffuse 0.8, specular 0, opacity 1, illumination model 2, exponent 10.
C8_FallbackMaterial ==
    (/\ pc = "created" /\ objectPtr = "object" /\ lastCall.op = "create"
     /\ (~lastCall.args[1].opens \/ ~HasDirective(lastCall.args[1])))
    => /\ obj.m_material.set
       /\ obj.m_material.m_params.Ka = ZeroVec
       /\ obj.m_material.m_params.Kd = <<Frac(4, 5), Frac(4, 5), Frac(4, 5)>>
       /\ obj.m_material.m_params.Ks = ZeroVec
       /\ obj.m_material.m_params.opacity = R(1)
       /\ obj.m_material.m_params.illum = R(2)
       /\ obj.m_material.m_params.Ns = R(10)

\* C9: a face line with 3 indices appends the triangle (i0-1, i1-1, i2-1),
\* one with 4 appends (i0-1, i1-1, i2-1) and (i0-1, i2-1, i3-1), one with
\* any other count appends nothing; a line that is not a face line leaves
\* the indices alone.  Appending is at the end, which is file order; the
\* subtraction is that of the index type.
C9_FaceLineContribution ==
    [][ (pc = "parse" /\ lastCall'.op = "parseLine") =>
          LET line  == lastCall'.args[1]
              words == line.args
              i(k)  == IF words[k].n = 0 THEN -1 ELSE words[k].n - 1
              added == IF Len(words) = 3 THEN <<i(1), i(2), i(3)>>
                       ELSE IF Len(words) = 4 THEN <<i(1), i(2), i(3), i(1), i(3), i(4)>>
                       ELSE <<>>
          IN  /\ line.prefix # "f" => obj'.m_indices = obj.m_indices
              /\ (line.prefix = "f" /\ \A k \in 1..Len(words) : ~words[k].junk)
                 => obj'.m_indices = obj.m_indices \o added ]_vars

\* A quad line has been read into a mesh without faces: its two triangles
\* are the indices.
C9_QuadRead ==
    /\ pc = "parse"
    /\ lastCall.op = "parseLine"
    /\ lastCall.args[1].prefix = "f"
    /\ Len(lastCall.args[1].args) = 4
    /\ obj.m_indices = <<0, 1, 2, 0, 2, 3>>

-----------------------------------------------------------------------------
(* A loaded object under calls of its transform operations.                *)

\* Whole mesh files: a triangle in the plane z = 0 and one in the plane
\* y = 0, after a line that is skipped.
TriangleXY ==
    [opens |-> TRUE,
     lines |-> <<VLine(0, 0, 0), VLine(3, 0, 0), VLine(0, 6, 0),
                 FLine(<<W(1), W(2), W(3)>>)>>]

TriangleXZ ==
    [opens |-> TRUE,
     lines |-> <<[prefix |-> "vn", args |-> <<>>],
                 VLine(3, 0, 0), VLine(0, 0, 6), VLine(0, 0, 0),
                 FLine(<<W(1), W(2), W(3)>>)>>]

ObjFiles == {TriangleXY, TriangleXZ}

\* The objects Object::create returns for these files.
LoadedObjects ==
    {r.o : r \in {c \in UNION {Object_create(file, NoMtlFile) : file \in ObjFiles} :
                    ~c.crashed /\ c.ptr = "object"}}

InitObj ==
    /\ pc = "loop"
    /\ exitCode = "none"
    /\ obj \in LoadedObjects
    /\ objectPtr = "object"
    /\ gCamera = Camera(Vec3(0, 0, 2), Vec3(0, 0, 0), Vec3(0, 1, 0))
    /\ mouse = [firstMouse |-> TRUE, lastX |-> R(0), lastY |-> R(0)]
    /\ keysWas = [pWasPressed |-> FALSE, tWasPressed |-> FALSE]
    /\ renderer = [m_polygonMode |-> FALSE, m_colorMode |-> TRUE, rColorMix |-> R(1)]
    /\ window = [shouldClose |-> FALSE]
    /\ deltaTime = R(0)
    /\ frame = 0
    /\ uniforms = NoUniforms
    /\ gTextureManager = loadTexture2D(TextureManager, NewGL, Argv2, TRUE).tm
    /\ shader = NewShader
    /\ gl = loadTexture2D(TextureManager, NewGL, Argv2, TRUE).gl
    /\ lastCall = NoCall

\* Angles, in quarter turns, and the times a move is made with.
Angles == {-1, 0, 1, 2, 3}

MoveTimes == {Frac(1, 2)}

\* The object is moved up to MaxTravel away from where it was loaded, on
\* each axis.
MaxTravel == 1

ObjInBounds(o) ==
    \A k \in 13..15 : RLe(RAbs(o.m_translationMatrix[k]), R(MaxTravel))

ObjUnchanged ==
    UNCHANGED <<Graphics, pc, exitCode, objectPtr, gCamera, mouse, keysWas, renderer, window,
                deltaTime, frame, uniforms>>

ObjRotate(angle) ==
    /\ obj' = updateRotationMatrixY(obj, angle)
    /\ lastCall' = [op |-> "updateRotationMatrixY", args |-> <<angle>>]
    /\ ObjUnchanged

ObjMove(axis, direction, dt) ==
    LET moved == CASE axis = "x" -> moveXaxis(obj, direction, dt)
                   [] axis = "y" -> moveYaxis(obj, direction, dt)
                   [] axis = "z" -> moveZaxis(obj, direction, dt)
    IN  /\ ObjInBounds(moved)
        /\ obj' = moved
        /\ lastCall' = [op |-> "move", args |-> <<axis, direction, dt>>]
        /\ ObjUnchanged

NextObj ==
    \/ \E angle \in Angles : ObjRotate(angle)
    \/ \E axis \in {"x", "y", "z"}, direction \in {R(1), R(-1)}, dt \in MoveTimes :
          ObjMove(axis, direction, dt)

SpecObj == InitObj /\ [][NextObj]_vars

\* C10: whatever the center and the rotation accumulated so far, a call of
\* updateRotationMatrixY(a) followed by a second one leaves the rotation
\* matrix that a single call with 2a leaves (angles in quarter turns, where
\* the sine and cosine are exact).
C10_RotationComposes ==
    [][ lastCall'.op = "updateRotationMatrixY" =>
          LET a == lastCall'.args[1]
          IN  updateRotationMatrixY(obj', a).m_rotationMatrix
                = updateRotationMatrixY(obj, 2 * a).m_rotationMatrix ]_vars

\* A quarter turn has been made on an object whose center is off the axis
\* and whose rotation was no longer the identity before the call.
C10_TurnedOffCenter ==
    /\ lastCall = [op |-> "updateRotationMatrixY", args |-> <<1>>]
    /\ obj.m_center[1] # R(0)
    /\ obj.m_center[3] # R(0)
    /\ obj.m_rotationMatrix = updateRotationMatrixY(
           [obj EXCEPT !.m_rotationMatrix = getIdentityMat4], 2).m_rotationMatrix

-----------------------------------------------------------------------------
(* main.cpp: the whole run, with the frame loop.  deltaTime counts the     *)
(* time of a quarter turn, the unit updateRotationMatrixY's angle has here. *)

\* The mesh files main is started on: one that cannot be opened, one with
\* vertex lines only, and a triangle.
VerticesOnly ==
    [opens |-> TRUE, lines |-> <<VLine(0, 0, 0), VLine(3, 0, 0), VLine(0, 0, 6)>>]

MainFiles == {[opens |-> FALSE, lines |-> <<>>], VerticesOnly, TriangleXZ}

\* Object::create as one step of main (line 80).
CreateObject(file, mtlFile) ==
    /\ pc = "create"
    /\ \E r \in Object_create(file, mtlFile) :
          /\ obj' = r.o
          /\ IF r.crashed THEN pc' = "crashed" /\ objectPtr' = objectPtr
             ELSE pc' = "created" /\ objectPtr' = r.ptr
    /\ lastCall' = [op |-> "create", args |-> <<mtlFile>>]
    /\ UNCHANGED <<Graphics, exitCode, gCamera, mouse, keysWas, renderer, window,
                   deltaTime, frame, uniforms>>

\* The loop is followed for MaxFrames iterations.
MaxFrames == 2

FrameTimes == {R(0), R(1)}

\* main lines 101-105: the loop's test passes and deltaTime is measured.
FrameBegin(dt) ==
    /\ pc = "loop"
    /\ ~window.shouldClose
    /\ frame < MaxFrames
    /\ frame' = frame + 1
    /\ deltaTime' = dt
    /\ pc' = "input"
    /\ UNCHANGED <<Graphics, exitCode, obj, objectPtr, gCamera, mouse, keysWas, renderer,
                   window, uniforms, lastCall>>

\* main lines 101 and 127-128: the loop's test fails.
LoopExit ==
    /\ pc = "loop"
    /\ window.shouldClose
    /\ pc' = "exited"
    /\ exitCode' = "0"
    /\ UNCHANGED <<Graphics, obj, objectPtr, gCamera, mouse, keysWas, renderer, window,
                   deltaTime, frame, uniforms, lastCall>>

\* changeModes switching a mode in every frame its key is held down.
changeModes_whileHeld(r, was, keys) ==
    LET pIsPressed == "P" \in keys
        tIsPressed == "T" \in keys
        r1 == IF pIsPressed THEN [r EXCEPT !.m_polygonMode = ~@] ELSE r
        r2 == IF tIsPressed THEN [r1 EXCEPT !.m_colorMode = ~@] ELSE r1
    IN  [renderer |-> r2,
         keysWas  |-> [pWasPressed |-> pIsPressed, tWasPressed |-> tIsPressed]]

\* inputManagement.cpp changeModes, `keys` being the keys held down.
changeModes(r, was, keys) ==
    LET pIsPressed == "P" \in keys
        tIsPressed == "T" \in keys
        r1 == IF pIsPressed /\ ~was.pWasPressed
              THEN [r EXCEPT !.m_polygonMode = ~@] ELSE r
        r2 == IF tIsPressed /\ ~was.tWasPressed
              THEN [r1 EXCEPT !.m_colorMode = ~@] ELSE r1
    IN  [renderer |-> r2,
         keysWas  |-> [pWasPressed |-> pIsPressed, tWasPressed |-> tIsPressed]]

moveObject(o, keys, dt) ==
    LET o1 == IF "W" \in keys THEN moveYaxis(o, R(1), dt) ELSE o
        o2 == IF "S" \in keys THEN moveYaxis(o1, R(-1), dt) ELSE o1
        o3 == IF "A" \in keys THEN moveXaxis(o2, R(-1), dt) ELSE o2
        o4 == IF "D" \in keys THEN moveXaxis(o3, R(1), dt) ELSE o3
        o5 == IF "N" \in keys THEN moveZaxis(o4, R(-1), dt) ELSE o4
    IN  IF "M" \in keys THEN moveZaxis(o5, R(1), dt) ELSE o5

moveCamera(cam, keys, dt) ==
    LET c1 == IF "UP" \in keys THEN updateCameraPos(cam, "FORWARD", dt) ELSE cam
        c2 == IF "DOWN" \in keys THEN updateCameraPos(c1, "BACKWARD", dt) ELSE c1
        c3 == IF "LEFT" \in keys THEN updateCameraPos(c2, "LEFT", dt) ELSE c2
        c4 == IF "RIGHT" \in keys THEN updateCameraPos(c3, "RIGHT", dt) ELSE c3
        c5 == IF "SPACE" \in keys THEN updateCameraPos(c4, "UP", dt) ELSE c4
    IN  IF "LEFT_SHIFT" \in keys THEN updateCameraPos(c5, "DOWN", dt) ELSE c5

KeySets ==
    { {},
      {"ESCAPE"},
      {"P", "T", "W", "A", "M", "UP", "RIGHT", "SPACE"},
      {"P", "S", "D", "N", "DOWN", "LEFT", "LEFT_SHIFT"} }

\* main line 107: processInput.
ProcessInput(keys) ==
    /\ pc = "input"
    /\ window' = IF "ESCAPE" \in keys THEN [window EXCEPT !.shouldClose = TRUE] ELSE window
    /\ renderer' = changeModes(renderer, keysWas, keys).renderer
    /\ keysWas' = changeModes(renderer, keysWas, keys).keysWas
    /\ obj' = moveObject(obj, keys, deltaTime)
    /\ gCamera' = moveCamera(gCamera, keys, deltaTime)
    /\ lastCall' = [op |-> "processInput", args |-> <<keys>>]
    /\ pc' = "rotate"
    /\ UNCHANGED <<Graphics, exitCode, objectPtr, mouse, deltaTime, frame, uniforms>>

\* ClearAndRotate leaving out the turn once the window is asked to close.
ClearAndRotate_unlessClosing ==
    /\ pc = "rotate"
    /\ obj' = IF window.shouldClose THEN obj ELSE updateRotationMatrixY(obj, deltaTime[1])
    /\ lastCall' = IF window.shouldClose THEN lastCall
                   ELSE [op |-> "updateRotationMatrixY", args |-> <<deltaTime[1]>>]
    /\ pc' = "draw"
    /\ UNCHANGED <<Graphics, exitCode, objectPtr, gCamera, mouse, keysWas, renderer, window,
                   deltaTime, frame, uniforms>>

\* main lines 110-112: the clear, then the turn by deltaTime.
ClearAndRotate ==
    /\ pc = "rotate"
    /\ obj' = updateRotationMatrixY(obj, deltaTime[1])
    /\ lastCall' = [op |-> "updateRotationMatrixY", args |-> <<deltaTime[1]>>]
    /\ pc' = "draw"
    /\ UNCHANGED <<Graphics, exitCode, objectPtr, gCamera, mouse, keysWas, renderer, window,
                   deltaTime, frame, uniforms>>

\* Renderer::setUniforms: the values read from the object and the camera
\* (both store what they hand out), in the iteration `n` of the loop.
setUniforms(o, cam, n) ==
    [obj      |-> getMatrix(o),
     gCamera  |-> getCamView(cam),
     uniforms |-> [frame       |-> n,
                   uModel      |-> getMatrix(o).m_matrix,
                   uView       |-> getCamView(cam).m_view,
                   uProjection |-> getCamProjection(cam),
                   uCameraPos  |-> cam.m_camPosition,
                   uColorMix   |-> R(0)]]

\* Renderer::draw lines 49-50: the step of rColorMix.
stepColorMix(r, dt) ==
    LET up   == IF r.m_colorMode /\ RLt(r.rColorMix, R(1))
                THEN RAdd(r.rColorMix, RMul(R(2), dt)) ELSE r.rColorMix
        down == IF ~r.m_colorMode /\ RGt(up, R(0))
                THEN RSub(up, RMul(R(2), dt)) ELSE up
    IN  [r EXCEPT !.rColorMix = down]

\* Draw with the turn by deltaTime made after the read of the matrices.
Draw_turnsAfterRead ==
    /\ pc = "draw"
    /\ LET sent == setUniforms(obj, gCamera, frame)
           r    == stepColorMix(renderer, deltaTime)
       IN  /\ obj' = updateRotationMatrixY(sent.obj, deltaTime[1])
           /\ gCamera' = sent.gCamera
           /\ renderer' = r
           /\ uniforms' = [sent.uniforms EXCEPT !.uColorMix = r.rColorMix]
    /\ LET set == setUniformsOf(shader, gl, DrawUniforms, Len(DrawUniforms))
       IN  shader' = set.shader /\ gl' = set.gl
    /\ lastCall' = [op |-> "draw", args |-> <<>>]
    /\ pc' = "poll"
    /\ UNCHANGED <<gTextureManager, exitCode, objectPtr, mouse, keysWas, window,
                   deltaTime, frame>>

\* main lines 114-121: Renderer::draw, the HUD (which reads only) and the
\* swap of the buffers.
Draw ==
    /\ pc = "draw"
    /\ LET sent == setUniforms(obj, gCamera, frame)
           r    == stepColorMix(renderer, deltaTime)
       IN  /\ obj' = sent.obj
           /\ gCamera' = sent.gCamera
           /\ renderer' = r
           /\ uniforms' = [sent.uniforms EXCEPT !.uColorMix = r.rColorMix]
    /\ LET set == setUniformsOf(shader, gl, DrawUniforms, Len(DrawUniforms))
       IN  shader' = set.shader /\ gl' = set.gl
    /\ lastCall' = [op |-> "draw", args |-> <<>>]
    /\ pc' = "poll"
    /\ UNCHANGED <<gTextureManager, exitCode, objectPtr, mouse, keysWas, window,
                   deltaTime, frame>>

\* callbacks.cpp, on the statics gCamera, firstMouse, lastX, lastY (and the
\* window for a request to close it).
\* cursorPosCallback without the statement for the first event (lines
\* 49-53).
cursorPosCallback_noFirstMouse(st, xpos, ypos) ==
    LET offsetX == RSub(xpos, st.mouse.lastX)
        offsetY == RSub(ypos, st.mouse.lastY)
    IN  [st EXCEPT
            !.mouse   = [firstMouse |-> FALSE, lastX |-> xpos, lastY |-> ypos],
            !.gCamera = IF offsetX # R(0) \/ offsetY # R(0)
                        THEN updateCameraDirection(@, offsetX, offsetY) ELSE @,
            !.calls   = IF offsetX # R(0) \/ offsetY # R(0)
                        THEN Append(@, [op   |-> "updateCameraDirection",
                                        args |-> <<offsetX, offsetY>>])
                        ELSE @]

\* `calls` is the list of the calls the callbacks made to the camera.
cursorPosCallback(st, xpos, ypos) ==
    LET lastX   == IF st.mouse.firstMouse THEN xpos ELSE st.mouse.lastX
        lastY   == IF st.mouse.firstMouse THEN ypos ELSE st.mouse.lastY
        offsetX == RSub(xpos, lastX)
        offsetY == RSub(ypos, lastY)
    IN  [st EXCEPT
            !.mouse   = [firstMouse |-> FALSE, lastX |-> xpos, lastY |-> ypos],
            !.gCamera = IF offsetX # R(0) \/ offsetY # R(0)
                        THEN updateCameraDirection(@, offsetX, offsetY) ELSE @,
            !.calls   = IF offsetX # R(0) \/ offsetY # R(0)
                        THEN Append(@, [op   |-> "updateCameraDirection",
                                        args |-> <<offsetX, offsetY>>])
                        ELSE @]

scrollCallback(st, xoffset, yoffset) ==
    [st EXCEPT !.gCamera = updateCameraZoom(@, yoffset)]

Cursor(x, y) == [type |-> "cursor", x |-> R(x), y |-> R(y)]

Scroll(y) == [type |-> "scroll", x |-> R(0), y |-> R(y)]

Close == [type |-> "close", x |-> R(0), y |-> R(0)]

\* glfwPollEvents: the callbacks of the events waiting, in their order.
RECURSIVE glfwPollEvents(_, _)
glfwPollEvents(st, events) ==
    IF events = <<>> THEN st
    ELSE LET e == Head(events)
             next == CASE e.type = "cursor" -> cursorPosCallback(st, e.x, e.y)
                       [] e.type = "scroll" -> scrollCallback(st, e.x, e.y)
                       [] e.type = "close"  -> [st EXCEPT !.window.shouldClose = TRUE]
         IN  glfwPollEvents(next, Tail(events))

EventLists ==
    { <<>>,
      <<Cursor(400, 300), Cursor(500, 100), Scroll(1)>>,
      <<Cursor(400, 300), Cursor(300, 500)>>,
      <<Scroll(-1), Close>> }

\* main line 124.
PollEvents(events) ==
    /\ pc = "poll"
    /\ LET st == glfwPollEvents([gCamera |-> gCamera, mouse |-> mouse, window |-> window,
                                 calls |-> <<>>], events)
       IN  /\ gCamera' = st.gCamera
           /\ mouse' = st.mouse
           /\ window' = st.window
    /\ lastCall' = [op |-> "glfwPollEvents", args |-> <<events>>]
    /\ pc' = "loop"
    /\ UNCHANGED <<Graphics, exitCode, obj, objectPtr, keysWas, renderer, deltaTime, frame, uniforms>>

NextMain ==
    \/ \E found \in Startups : MainStartup(found)
    \/ \E file \in MainFiles, mtlFile \in MtlFiles : CreateObject(file, mtlFile)
    \/ \E textureLoads \in BOOLEAN : MainLoaded(textureLoads)
    \/ \E dt \in FrameTimes : FrameBegin(dt)
    \/ LoopExit
    \/ \E keys \in KeySets : ProcessInput(keys)
    \/ ClearAndRotate
    \/ Draw
    \/ \E events \in EventLists : PollEvents(events)

SpecMain == Init /\ [][NextMain]_vars

LoopPcs == {"loop", "input", "rotate", "draw", "poll"}

\* What look, move and zoom set in the camera, and what move and rotate set
\* in the object (m_view and m_matrix are stores of the last value handed
\* out).
CameraPose(cam) ==
    <<cam.m_camPosition, cam.m_yaw, cam.m_pitch, cam.m_fov, cam.m_camDirection,
      cam.m_camRight, cam.m_camUp, cam.m_projection>>

ObjectPose(o) == <<o.m_translationMatrix, o.m_rotationMatrix>>

\* C5 as stated: in an iteration of the frame loop, the camera and the
\* object change only inside the input-processing step, and before
\* Renderer::setUniforms has read the matrices of that iteration.
C5_MutationOnlyInInput ==
    [][ (pc \in LoopPcs /\ (CameraPose(gCamera') # CameraPose(gCamera)
                            \/ ObjectPose(obj') # ObjectPose(obj)))
        => (pc = "input" /\ uniforms.frame < frame) ]_vars

\* C5, amended: in an iteration of the frame loop the object and the camera
\* are moved inside the input-processing step and the object is turned in
\* the step that follows it, all before Renderer::setUniforms reads the
\* matrices of that iteration; setUniforms reads the values these steps
\* left and changes none of them; look and zoom happen in the callbacks of
\* glfwPollEvents, after the read of that iteration.
C5_MutationAroundRead ==
    [][ (pc \in LoopPcs) =>
          /\ (obj'.m_translationMatrix # obj.m_translationMatrix
              \/ gCamera'.m_camPosition # gCamera.m_camPosition)
             => (pc = "input" /\ uniforms.frame < frame)
          /\ obj'.m_rotationMatrix # obj.m_rotationMatrix
             => (pc = "rotate" /\ uniforms.frame < frame)
          /\ (gCamera'.m_yaw # gCamera.m_yaw \/ gCamera'.m_pitch # gCamera.m_pitch
              \/ gCamera'.m_fov # gCamera.m_fov
              \/ gCamera'.m_camDirection # gCamera.m_camDirection
              \/ gCamera'.m_projection # gCamera.m_projection)
             => (pc = "poll" /\ uniforms.frame = frame)
          /\ uniforms' # uniforms
             => /\ pc = "draw"
                /\ uniforms'.frame = frame
                /\ uniforms'.uModel = getMatrix(obj).m_matrix
                /\ uniforms'.uView = lookAt(gCamera)
                /\ uniforms'.uProjection = gCamera.m_projection
                /\ uniforms'.uCameraPos = gCamera.m_camPosition
                /\ CameraPose(gCamera') = CameraPose(gCamera)
                /\ ObjectPose(obj') = ObjectPose(obj) ]_vars

\* An iteration has ended in which the object was moved and turned before
\* the read, and the camera was turned and zoomed after it.
C5_LookAndZoomAfterRead ==
    /\ pc = "loop"
    /\ lastCall.op = "glfwPollEvents"
    /\ uniforms.frame = frame
    /\ uniforms.uModel = getMatrix(obj).m_matrix
    /\ obj.m_translationMatrix # getIdentityMat4
    /\ obj.m_rotationMatrix # getIdentityMat4
    /\ gCamera.m_fov # uniforms.uProjection.fov
    /\ gCamera.m_pitch # uniforms.uView.forward.pitch

\* C7: when the parse of the mesh fails, Object::create returns null with
\* the buffers, the center, the scale and the material as allocated, main
\* exits with status 1, and the frame loop runs on a ready object only: no
\* transform or draw operation has touched an object create did not
\* finish.
C7_ParseFailureAborts ==
    /\ objectPtr = "nullptr" =>
          /\ ~obj.m_VBO.set /\ ~obj.m_IBO.set /\ ~obj.m_material.set
          /\ obj.m_center = ZeroVec
          /\ obj.m_scaleFactor = R(0)
          /\ obj.m_translationMatrix = ZeroMat4
          /\ obj.m_rotationMatrix = ZeroMat4
          /\ obj.m_matrix = ZeroMat4
          /\ pc \in {"created", "exited"}
          /\ pc = "exited" => exitCode = "1"
          /\ frame = 0
          /\ uniforms = NoUniforms
    /\ pc \in LoopPcs =>
          /\ objectPtr = "object"
          /\ obj.m_VBO.set /\ obj.m_IBO.set /\ obj.m_material.set
          /\ obj.m_vertices # <<>> /\ obj.m_indices # <<>>

\* main has exited with status 1 after the parse of a readable mesh file
\* failed.
C7_ExitedOnParseFailure ==
    /\ pc = "exited"
    /\ exitCode = "1"
    /\ objectPtr = "nullptr"
    /\ obj.m_vertices # <<>>

-----------------------------------------------------------------------------
(* A loaded object turned by quarter turns and by the floats 90, 180, 360. *)

\* Whether every entry of a matrix is a whole number: so it is until the
\* first turn by an angle that is not a whole number of quarter turns.
IsWholeMatrix(m) == \A i \in 1..16 : m[i][2] = 1

\* A turn by n, followed for the first such turn of the object.
ObjRotateFloat(n) ==
    /\ IsWholeMatrix(obj.m_rotationMatrix)
    /\ obj' = updateRotationMatrixY(obj, Float(n))
    /\ lastCall' = [op |-> "updateRotationMatrixY", args |-> <<Float(n)>>]
    /\ ObjUnchanged

NextTurn ==
    \/ \E angle \in Angles : ObjRotate(angle)
    \/ \E n \in FloatValues : ObjRotateFloat(n)

SpecTurn == InitObj /\ [][NextTurn]_vars

\* C11: updateRotationMatrixY takes its angle in degrees: a call with
\* 90 k turns the object by toRadians(90 k), that is by k quarter turns, and
\* a call with 360 leaves the accumulated rotation as it was.
C11_AngleInDegrees ==
    [][ (lastCall'.op = "updateRotationMatrixY" /\ IsFloat(lastCall'.args[1])) =>
          LET degrees == lastCall'.args[1]
          IN  /\ obj'.m_rotationMatrix
                   = updateRotationMatrixY(obj, toRadians(degrees)).m_rotationMatrix
              /\ FloatValue(degrees) = 360 => obj'.m_rotationMatrix = obj.m_rotationMatrix ]_vars

-----------------------------------------------------------------------------
(* The mesh as Object::create leaves it. *)

\* C12: in an accepted mesh whose indices all name vertices, every vertex
\* that is a corner of at least one triangle of non-zero area has a normal of
\* length 1 (so also a vertex shared by two triangles of opposite winding),
\* and a vertex whose triangles all have zero area has the zero normal.
C12_NormalsUnit ==
    (pc = "created" /\ objectPtr = "object" /\ IndicesInRange(obj)) =>
        LET vs == obj.m_vertices
            ix == obj.m_indices
            Corner(t, v) == \E k \in 1..3 : ix[3 * (t - 1) + k] = v - 1
            Degenerate(t) ==
                LET v0 == vs[ix[3 * t - 2] + 1].position
                    v1 == vs[ix[3 * t - 1] + 1].position
                    v2 == vs[ix[3 * t] + 1].position
                IN  crossProdVec(subtractVec(v1, v0), subtractVec(v2, v0)) = ZeroVec
        IN  \A v \in 1..Len(vs) :
               IF \E t \in 1..(Len(ix) \div 3) : Corner(t, v) /\ ~Degenerate(t)
               THEN dotProdVec(vs[v].normal, vs[v].normal) = R(1)
               ELSE vs[v].normal = ZeroVec

-----------------------------------------------------------------------------
(* SpecLoad: Object::create read line by line on meshes whose vertices are *)
(* spread over the three axes and reach 2^24, where a float no longer      *)
(* holds every whole number.  The faces name one vertex three times, so    *)
(* that no normal has an irrational length; the differences of the         *)
(* coordinates are all floats, so that the sums of calculateCenter are the *)
(* only operations of the load that round.                                 *)

LoadVertexLines ==
    {VLine(0, 0, 0), VLine(2, 1, 4), VLine(1, -2, 0), VLine(2^24, 0, 0)}

LoadFaceLines == {FLine(<<W(1), W(1), W(1)>>)}

NextLoad ==
    \/ \E found \in Startups : MainStartup(found)
    \/ \E opens \in BOOLEAN : CreateOpen(opens)
    \/ \E line \in LoadVertexLines : ReadLine(line)
    \/ \E line \in LoadFaceLines : ReadLine(line)
    \/ EndOfFile(NoMtlFile)

SpecLoad == Init /\ [][NextLoad]_vars

\* C13 as stated: the center of a loaded mesh is the arithmetic mean of its
\* vertex positions, and the vertices taken in any other order give the
\* same center.
C13_CenterIsMean ==
    (pc = "created" /\ objectPtr = "object") =>
        LET vs == obj.m_vertices
            n  == Len(vs)
            Total[i \in 0..n] ==
                IF i = 0 THEN ZeroVec ELSE addVec(Total[i - 1], vs[i].position)
            mean == <<RDiv(Total[n][1], R(n)), RDiv(Total[n][2], R(n)),
                      RDiv(Total[n][3], R(n))>>
        IN  /\ obj.m_center = mean
            /\ \A p \in Permutations(1..n) :
                  calculateCenter([i \in 1..n |-> vs[p[i]]]) = obj.m_center

\* C13: when the coordinates are whole numbers whose magnitudes add up to
\* no more than 2^24 on each axis (every partial sum is then a float), the
\* center of a loaded mesh is the arithmetic mean of its vertex positions,
\* and the vertices taken in any other order give the same center.
C13_CenterIsMeanOfSmall ==
    (pc = "created" /\ objectPtr = "object") =>
        LET vs == obj.m_vertices
            n  == Len(vs)
            Total[i \in 0..n] ==
                IF i = 0 THEN ZeroVec ELSE addVec(Total[i - 1], vs[i].position)
            Magnitude[i \in 0..n] ==
                IF i = 0 THEN <<0, 0, 0>>
                ELSE [k \in 1..3 |-> Magnitude[i - 1][k] + Abs(vs[i].position[k][1])]
            mean == <<RDiv(Total[n][1], R(n)), RDiv(Total[n][2], R(n)),
                      RDiv(Total[n][3], R(n))>>
        IN  (\A i \in 1..n, k \in 1..3 : vs[i].position[k][2] = 1 /\ Magnitude[n][k] <= 2^24)
            => /\ obj.m_center = mean
               /\ \A p \in Permutations(1..n) :
                     calculateCenter([i \in 1..n |-> vs[p[i]]]) = obj.m_center

\* A mesh of three different vertices with small coordinates was loaded: its
\* center is (1, -1/3, 4/3).
C13_SmallMeshLoaded ==
    /\ pc = "created" /\ objectPtr = "object"
    /\ Len(obj.m_vertices) = 3
    /\ obj.m_vertices[1].position = Vec3(2, 1, 4)
    /\ obj.m_vertices[2].position = Vec3(0, 0, 0)
    /\ obj.m_vertices[3].position = Vec3(1, -2, 0)
    /\ obj.m_center = <<R(1), Frac(-1, 3), Frac(4, 3)>>

\* C14: the scale factor of a loaded mesh is the reciprocal of the largest
\* of the extents of its vertex positions along the three axes (where that
\* extent is not zero); for the bounding box [0,2]x[0,1]x[0,4] it is 1/4.
C14_ScaleIsReciprocal ==
    (pc = "created" /\ objectPtr = "object") =>
        LET vs == obj.m_vertices
            Coords(k) == {vs[i].position[k] : i \in 1..Len(vs)}
            Spans(k) == {RSub(a, b) : a, b \in Coords(k)}
            extent(k) == CHOOSE d \in Spans(k) : \A e \in Spans(k) : RLe(e, d)
            largest == CHOOSE d \in {extent(1), extent(2), extent(3)} :
                          \A k \in 1..3 : RLe(extent(k), d)
            Box(k, lo, hi) == R(lo) \in Coords(k) /\ R(hi) \in Coords(k)
                              /\ \A c \in Coords(k) : RLe(R(lo), c) /\ RLe(c, R(hi))
        IN  /\ largest # R(0) => RMul(obj.m_scaleFactor, largest) = R(1)
            /\ (Box(1, 0, 2) /\ Box(2, 0, 1) /\ Box(3, 0, 4)) => obj.m_scaleFactor = Frac(1, 4)

\* A mesh with the bounding box [0,2]x[0,1]x[0,4] was loaded, with the
\* scale factor 1/4.
C14_BoxLoaded ==
    /\ pc = "created" /\ objectPtr = "object"
    /\ {obj.m_vertices[i].position : i \in 1..Len(obj.m_vertices)}
          = {Vec3(0, 0, 0), Vec3(2, 1, 4)}
    /\ obj.m_scaleFactor = Frac(1, 4)

\* C15: in a loaded mesh whose vertices differ in X, every vertex with the
\* least X has uv.x = 0, every vertex with the greatest X has uv.x = 1 and
\* every vertex has uv.x from 0 to 1; likewise for Y and uv.y.
C15_UVWithinUnitSquare ==
    (pc = "created" /\ objectPtr = "object") =>
        LET vs == obj.m_vertices
            Coords(k) == {vs[i].position[k] : i \in 1..Len(vs)}
            Least(k, c) == \A d \in Coords(k) : RLe(c, d)
            Greatest(k, c) == \A d \in Coords(k) : RLe(d, c)
        IN  \A k \in 1..2 :
               Cardinality(Coords(k)) > 1 =>
                  \A i \in 1..Len(vs) :
                     /\ Least(k, vs[i].position[k]) => vs[i].uv[k] = R(0)
                     /\ Greatest(k, vs[i].position[k]) => vs[i].uv[k] = R(1)
                     /\ RLe(R(0), vs[i].uv[k]) /\ RLe(vs[i].uv[k], R(1))

\* A mesh was loaded whose third vertex lies between the others in X and
\* below them in Y: its uv is (1/2, 0), and the second vertex has (1, 1).
C15_VertexBetween ==
    /\ pc = "created" /\ objectPtr = "object"
    /\ Len(obj.m_vertices) = 3
    /\ obj.m_vertices[1].position = Vec3(0, 0, 0)
    /\ obj.m_vertices[2].position = Vec3(2, 1, 4)
    /\ obj.m_vertices[3].position = Vec3(1, -2, 0)
    /\ obj.m_vertices[1].uv = <<R(0), Frac(2, 3)>>
    /\ obj.m_vertices[2].uv = <<R(1), R(1)>>
    /\ obj.m_vertices[3].uv = <<Frac(1, 2), R(0)>>

-----------------------------------------------------------------------------
(* SpecReady: a loaded object turned by half turns, moved and asked for    *)
(* its matrix, in any order.                                               *)

HalfTurns == {0, 2}

\* The object is moved up to MaxReach moves away from where it was loaded,
\* the three axes together.
MaxReach == 1

ReadyInBounds(o) ==
    RLe(RAdd(RAdd(RAbs(o.m_translationMatrix[13]), RAbs(o.m_translationMatrix[14])),
             RAbs(o.m_translationMatrix[15])),
        R(MaxReach))

ReadyMove(axis, direction, dt) ==
    /\ ReadyInBounds(CASE axis = "x" -> moveXaxis(obj, direction, dt)
                       [] axis = "y" -> moveYaxis(obj, direction, dt)
                       [] axis = "z" -> moveZaxis(obj, direction, dt))
    /\ ObjMove(axis, direction, dt)

\* A call of getMatrix; lastCall keeps the matrix returned.
ObjGetMatrix ==
    /\ obj' = getMatrix(obj)
    /\ lastCall' = [op |-> "getMatrix", args |-> <<getMatrix(obj).m_matrix>>]
    /\ ObjUnchanged

NextReady ==
    \/ \E angle \in HalfTurns : ObjRotate(angle)
    \/ \E axis \in {"x", "y", "z"}, direction \in {R(1), R(-1)}, dt \in MoveTimes :
          ReadyMove(axis, direction, dt)
    \/ ObjGetMatrix

SpecReady == InitObj /\ [][NextReady]_vars

\* C16: a call of getMatrix returns
\* rotation . (scaleUniform(T(-center), scaleFactor) . translation), leaves
\* the rotation, the translation, the center and the scale factor as they
\* were, and a call that follows it at once returns the same matrix.
C16_GetMatrixDerives ==
    [][ lastCall'.op = "getMatrix" =>
          LET centered == translateMatrix(getIdentityMat4, RNeg(obj.m_center[1]),
                                          RNeg(obj.m_center[2]), RNeg(obj.m_center[3]))
              expected == multiplyMatrix(obj.m_rotationMatrix,
                             multiplyMatrix(scaleMatrix(centered, obj.m_scaleFactor),
                                            obj.m_translationMatrix))
          IN  /\ lastCall'.args[1] = expected
              /\ obj'.m_rotationMatrix = obj.m_rotationMatrix
              /\ obj'.m_translationMatrix = obj.m_translationMatrix
              /\ obj'.m_center = obj.m_center
              /\ obj'.m_scaleFactor = obj.m_scaleFactor
              /\ getMatrix(obj').m_matrix = lastCall'.args[1] ]_vars

\* getMatrix was called on an object that was turned and moved, and the
\* matrix it returned is not the one of the object before the turn.
C16_MatrixOfMovedObject ==
    /\ lastCall.op = "getMatrix"
    /\ obj.m_rotationMatrix # getIdentityMat4
    /\ obj.m_translationMatrix # getIdentityMat4
    /\ obj.m_matrix = lastCall.args[1]
    /\ obj.m_matrix # getMatrix([obj EXCEPT !.m_rotationMatrix = getIdentityMat4]).m_matrix

\* C18: once the object is loaded, no call of moveXaxis, moveYaxis,
\* moveZaxis, updateRotationMatrixY or getMatrix changes its center or its
\* scale factor.
C18_CenterAndScaleKept ==
    [][ lastCall'.op \in {"move", "updateRotationMatrixY", "getMatrix"} =>
          /\ obj'.m_center = obj.m_center
          /\ obj'.m_scaleFactor = obj.m_scaleFactor ]_vars

\* The object was turned, moved along X and asked for its matrix, and has
\* the center and the scale factor of its vertices.
C18_KeptThroughCalls ==
    /\ obj.m_rotationMatrix # getIdentityMat4
    /\ obj.m_translationMatrix[13] # R(0)
    /\ obj.m_matrix = getMatrix(obj).m_matrix
    /\ obj.m_center = calculateCenter(obj.m_vertices)
    /\ obj.m_scaleFactor = RDiv(R(1), calculateScale(obj.m_vertices))

-----------------------------------------------------------------------------
(* The camera in the frame loop. *)

\* C17: the steps of the frame loop that look, move the camera or read its
\* view, and do not zoom, leave the projection matrix and the field of view
\* as they were: the input-processing step (updateCameraPos), the draw
\* (getCamView) and a glfwPollEvents without a scroll event
\* (updateCameraDirection).
C17_ProjectionKept ==
    [][ (\/ pc \in {"input", "draw"}
         \/ /\ pc = "poll" /\ lastCall'.op = "glfwPollEvents"
            /\ \A i \in 1..Len(lastCall'.args[1]) : lastCall'.args[1][i].type # "scroll")
        => /\ gCamera'.m_projection = gCamera.m_projection
           /\ gCamera'.m_fov = gCamera.m_fov ]_vars

\* In the second iteration the camera was moved, its view was read and the
\* cursor turned it, with the field of view 44 and the projection matrix
\* that the zoom of the first iteration had left.
C17_LookedAfterZoom ==
    /\ pc = "loop" /\ frame = 2 /\ uniforms.frame = 2
    /\ lastCall = [op |-> "glfwPollEvents",
                   args |-> << <<Cursor(400, 300), Cursor(300, 500)>> >>]
    /\ gCamera.m_camPosition # Position(Vec3(0, 0, 2))
    /\ uniforms.uView.position = gCamera.m_camPosition
    /\ gCamera.m_camDirection # uniforms.uView.forward
    /\ gCamera.m_fov = R(44)
    /\ gCamera.m_projection = getPerspective(R(44), gCamera.m_aspectRatio, R(NEAR), R(FAR))

\* C19: an iteration of the frame loop goes from the input-processing step,
\* whatever the keys, to one call of updateRotationMatrixY with the
\* deltaTime of that iteration as angle, and from there to the draw of that
\* iteration; no other step of the loop turns the object, and the draw is
\* entered from nowhere else.
C19_OneTurnPerFrame ==
    [][ (pc \in LoopPcs) =>
          /\ pc = "input" => pc' = "rotate" /\ frame' = frame
          /\ pc = "rotate" =>
                /\ pc' = "draw" /\ frame' = frame /\ deltaTime' = deltaTime
                /\ lastCall'.op = "updateRotationMatrixY"
                /\ lastCall'.args = <<deltaTime[1]>>
                /\ obj'.m_rotationMatrix
                     = updateRotationMatrixY(obj, deltaTime[1]).m_rotationMatrix
          /\ pc # "rotate" => obj'.m_rotationMatrix = obj.m_rotationMatrix
          /\ pc' = "rotate" => pc = "input"
          /\ pc' = "draw" => pc = "rotate"
          /\ pc = "draw" => pc' = "poll" /\ uniforms'.frame = frame
                            /\ uniforms'.uModel = getMatrix(obj).m_matrix
          /\ pc' = "input" => pc = "loop" /\ frame' = frame + 1 ]_vars

\* In the second iteration, with keys held down and a deltaTime of one
\* quarter turn, the object was turned and the draw of that iteration is
\* still to come.
C19_TurnedBeforeDraw ==
    /\ pc = "draw" /\ frame = 2 /\ uniforms.frame = 1
    /\ deltaTime = R(1)
    /\ keysWas.pWasPressed
    /\ lastCall = [op |-> "updateRotationMatrixY", args |-> <<1>>]
    /\ obj.m_rotationMatrix # getIdentityMat4
    /\ uniforms.uModel # getMatrix(obj).m_matrix

-----------------------------------------------------------------------------
(* What Object::create hands back when the load fails. *)

\* C20 as stated: when the load of a file that opened fails for want of
\* geometry, what parseFile or Object::create returns differs from what
\* they return for a file that does not open.
C20_FailuresDistinct ==
    (pc = "created" /\ objectPtr = "nullptr" /\ lastCall.op = "create") =>
        \A unreadable \in parseFile(NewObject, [opens |-> FALSE, lines |-> <<>>]),
           empty \in parseFileEnd(obj) :
              \/ unreadable.ret # empty.ret
              \/ createResult(unreadable, NoMtlFile).ptr # objectPtr

\* C20: a load that fails returns the same for a file that does not open
\* and for a file that opened and left no vertex or no index: parseFile
\* returns 1 and Object::create the null pointer, in both cases.
C20_FailuresAlike ==
    (pc = "created" /\ objectPtr = "nullptr") =>
        /\ \A unreadable \in parseFile(NewObject, [opens |-> FALSE, lines |-> <<>>]) :
              /\ ~unreadable.crashed /\ unreadable.ret = 1
              /\ createResult(unreadable, NoMtlFile).ptr = objectPtr
        /\ \/ lastCall.op = "open" /\ lastCall.args = <<FALSE>> /\ obj = NewObject
           \/ /\ lastCall.op = "create"
              /\ obj.m_vertices = <<>> \/ obj.m_indices = <<>>
              /\ \A empty \in parseFileEnd(obj) : ~empty.crashed /\ empty.ret = 1

\* The load of a file that opened failed: it held two vertices and a face
\* line of two indices, which adds no triangle.
C20_FailedForNoGeometry ==
    /\ pc = "created" /\ objectPtr = "nullptr" /\ lastCall.op = "create"
    /\ Len(obj.m_vertices) = 2
    /\ obj.m_indices = <<>>

-----------------------------------------------------------------------------
(* SpecFly: the camera turned by the cursor and moved, in any order.       *)

FlyLooks == {<<R(900), R(-450)>>, <<R(-900), R(450)>>}

\* A deltaTime for which the velocity of the camera is 1.
FlyTimes == {Frac(2, 5)}

\* The camera is moved up to MaxStride moves away from where it started.
MaxStride == 1

RECURSIVE AlongTotal(_)
AlongTotal(along) ==
    IF along = {} THEN R(0)
    ELSE LET t == CHOOSE t \in along : TRUE
         IN  RAdd(RAbs(t.k), AlongTotal(along \ {t}))

FlyInBounds(cam) ==
    LET offset == subtractVec(cam.m_camPosition.base, Vec3(0, 0, 2))
    IN  RLe(RAdd(RAdd(RAdd(RAbs(offset[1]), RAbs(offset[2])), RAbs(offset[3])),
                 AlongTotal(cam.m_camPosition.along)),
            R(MaxStride))

CamMove(dir, dt) ==
    /\ FlyInBounds(updateCameraPos(gCamera, dir, dt))
    /\ gCamera' = updateCameraPos(gCamera, dir, dt)
    /\ lastCall' = [op |-> "updateCameraPos", args |-> <<dir, dt>>]
    /\ CamUnchanged

NextFly ==
    \/ \E d \in FlyLooks : CamLook(d[1], d[2])
    \/ \E dir \in CameraDirection, dt \in FlyTimes : CamMove(dir, dt)

SpecFly == Init /\ [][NextFly]_vars

\* C21: a call of updateCameraPos changes nothing of the camera but its
\* position, which moves by the velocity (deltaTime times the speed) along
\* the forward vector (FORWARD, BACKWARD the other way), the right vector
\* (RIGHT, LEFT) or worldUp (UP, DOWN: the same displacement whatever the
\* pitch), and not at all for NONE.
C21_MoveChangesPosition ==
    [][ lastCall'.op = "updateCameraPos" =>
          LET dir == lastCall'.args[1]
              velocity == RMul(lastCall'.args[2], gCamera.m_speed)
              old == gCamera.m_camPosition
              new == gCamera'.m_camPosition
              Along(vec, x) == new = addAlong(old, vec, x)
              Lifted(x) == /\ new.along = old.along
                           /\ new.base = addVec(old.base, <<R(0), x, R(0)>>)
          IN  /\ gCamera' = [gCamera EXCEPT !.m_camPosition = new]
              /\ gCamera.m_worldUp = Vec3(0, 1, 0)
              /\ CASE dir = "FORWARD"  -> Along(gCamera.m_camDirection, velocity)
                   [] dir = "BACKWARD" -> Along(gCamera.m_camDirection, RNeg(velocity))
                   [] dir = "RIGHT"    -> Along(gCamera.m_camRight, velocity)
                   [] dir = "LEFT"     -> Along(gCamera.m_camRight, RNeg(velocity))
                   [] dir = "UP"       -> Lifted(velocity)
                   [] dir = "DOWN"     -> Lifted(RNeg(velocity))
                   [] dir = "NONE"     -> new = old ]_vars

\* The camera, pitched by 45 degrees, was moved UP: it is 1 higher than it
\* started and its pitch is still 45.
C21_LiftedWhilePitched ==
    /\ lastCall.op = "updateCameraPos"
    /\ lastCall.args = <<"UP", Frac(2, 5)>>
    /\ gCamera.m_pitch = R(45)
    /\ gCamera.m_camUp = [of |-> "up", yaw |-> R(0), pitch |-> R(45)]
    /\ gCamera.m_camPosition = Position(Vec3(0, 1, 2))

-----------------------------------------------------------------------------
(* SpecGraphics: the texture manager and the shader's uniform cache, with  *)
(* loads and lookups made in any order.                                    *)

\* The paths loaded, and whether the image file at the path loads.
TexturePaths == {Argv2, "second", "third"}

\* The uniform names looked up: two of the program and one it has not.
UniformNames == {"uModel", "uColorMix", "uMissing"}

GraphicsUnchanged ==
    UNCHANGED <<pc, exitCode, obj, objectPtr, gCamera, mouse, keysWas, renderer,
                window, deltaTime, frame, uniforms>>

LoadTexture2D(path, fileLoads) ==
    LET loaded == loadTexture2D(gTextureManager, gl, path, fileLoads)
    IN  /\ gTextureManager' = loaded.tm
        /\ gl' = loaded.gl
        /\ lastCall' = [op |-> "loadTexture2D", args |-> <<path, fileLoads>>,
                        result |-> loaded.tex]
        /\ shader' = shader
        /\ GraphicsUnchanged

GetSlot(path) ==
    /\ lastCall' = [op |-> "getSlot", args |-> <<path>>,
                    result |-> getSlot(gTextureManager, path)]
    /\ UNCHANGED Graphics
    /\ GraphicsUnchanged

FindLoc(name) ==
    LET found == findLoc(shader, gl, name)
    IN  /\ shader' = found.shader
        /\ gl' = found.gl
        /\ lastCall' = [op |-> "findLoc", args |-> <<name>>,
                        result |-> found.location]
        /\ gTextureManager' = gTextureManager
        /\ GraphicsUnchanged

NextGraphics ==
    \/ \E path \in TexturePaths, fileLoads \in BOOLEAN : LoadTexture2D(path, fileLoads)
    \/ \E path \in TexturePaths : GetSlot(path)
    \/ \E name \in UniformNames : FindLoc(name)

SpecGraphics == Init /\ [][NextGraphics]_vars

\* C22: loadTexture2D loads each path at most once.  A load of a path the
\* manager already holds returns the texture it holds, generates no texture
\* and leaves the manager as it was; a load that fails returns null and
\* leaves the manager as it was; a load that succeeds for a new path
\* generates one texture and gives the path the slot equal to the number of
\* paths loaded before it, so that the paths held always have the distinct
\* slots 0, 1, 2, ... in the order they were loaded, which getSlot returns.
C22_LoadedOnce ==
    [][ /\ (lastCall'.op = "loadTexture2D") =>
            LET path == lastCall'.args[1]
                held == DOMAIN gTextureManager.m_textures2D
            IN  IF path \in held THEN
                    /\ lastCall'.result = gTextureManager.m_textures2D[path]
                    /\ gTextureManager' = gTextureManager
                    /\ gl'.textures = gl.textures
                ELSE IF lastCall'.result = NullTexture THEN
                    /\ gTextureManager' = gTextureManager
                    /\ gl'.textures = gl.textures
                ELSE
                    /\ gl'.textures = gl.textures + 1
                    /\ DOMAIN gTextureManager'.m_textures2D = held \cup {path}
                    /\ gTextureManager'.m_textures2D[path] = lastCall'.result
                    /\ gTextureManager'.m_slots[path] = Cardinality(held)
                    /\ \A p \in held :
                          /\ gTextureManager'.m_slots[p] = gTextureManager.m_slots[p]
                          /\ gTextureManager'.m_textures2D[p] = gTextureManager.m_textures2D[p]
        /\ LET held == DOMAIN gTextureManager'.m_textures2D
           IN  /\ DOMAIN gTextureManager'.m_slots = held
               /\ {getSlot(gTextureManager', p) : p \in held} = 0..(Cardinality(held) - 1)
               /\ \A p, q \in held :
                     (gTextureManager'.m_textures2D[p].m_id < gTextureManager'.m_textures2D[q].m_id)
                        <=> (getSlot(gTextureManager', p) < getSlot(gTextureManager', q))
        /\ (lastCall'.op = "getSlot" /\ lastCall'.args[1] \in DOMAIN gTextureManager.m_slots) =>
              lastCall'.result = gTextureManager.m_slots[lastCall'.args[1]]
      ]_vars

\* A path is loaded again after another path was loaded: the call returns
\* the first texture generated, two textures were generated in all, and the
\* other path has slot 1.
C22_LoadedAgain ==
    /\ lastCall.op = "loadTexture2D"
    /\ lastCall.args = <<Argv2, TRUE>>
    /\ lastCall.result = [m_id |-> 1, m_path |-> Argv2]
    /\ gl.textures = 2
    /\ DOMAIN gTextureManager.m_slots = {Argv2, "third"}
    /\ gTextureManager.m_slots["third"] = 1
    /\ gTextureManager.m_nextSlot = 2

\* C25: findLoc memoizes.  A lookup of a name the cache holds returns the
\* cached location and asks the graphics API nothing; a lookup of a new
\* name asks once and caches the answer; no step removes or changes a
\* cached location; and the graphics API is asked for no name twice.
C25_LocationsMemoized ==
    [][ /\ (lastCall'.op = "findLoc") =>
            LET name == lastCall'.args[1]
            IN  IF name \in DOMAIN shader.m_uniformCache THEN
                    /\ lastCall'.result = shader.m_uniformCache[name]
                    /\ gl' = gl
                ELSE
                    /\ gl'.uniformQueries = Append(gl.uniformQueries, name)
                    /\ name \in DOMAIN shader'.m_uniformCache
                    /\ shader'.m_uniformCache[name] = lastCall'.result
        /\ \A name \in DOMAIN shader.m_uniformCache :
              /\ name \in DOMAIN shader'.m_uniformCache
              /\ shader'.m_uniformCache[name] = shader.m_uniformCache[name]
        /\ \A i, j \in DOMAIN gl'.uniformQueries :
              (gl'.uniformQueries[i] = gl'.uniformQueries[j]) => (i = j)
      ]_vars

\* A name is looked up a second time after another name was looked up: the
\* graphics API was asked twice in all, and the location is the cached one.
C25_LookedUpAgain ==
    /\ lastCall.op = "findLoc"
    /\ lastCall.args = <<"uColorMix">>
    /\ lastCall.result = 9
    /\ gl.uniformQueries = <<"uColorMix", "uMissing">>
    /\ shader.m_uniformCache["uMissing"] = -1

-----------------------------------------------------------------------------
\* C23: moveXaxis, moveYaxis and moveZaxis each add direction * MOVE_SPEED *
\* deltaTime to one entry of the translation matrix, entry 12, 13 and 14 of
\* the array (13, 14 and 15 counting from one), and leave its other entries
\* and the whole rotation matrix as they were; updateRotationMatrixY leaves
\* the translation matrix as it was.
C23_MoveAndTurnApart ==
    [][ /\ (lastCall'.op = "move") =>
            LET axis      == lastCall'.args[1]
                direction == lastCall'.args[2]
                dt        == lastCall'.args[3]
                slot      == CASE axis = "x" -> 13 [] axis = "y" -> 14 [] axis = "z" -> 15
            IN  /\ obj'.m_translationMatrix[slot] =
                      RAdd(obj.m_translationMatrix[slot],
                           RMul(RMul(direction, R(MOVE_SPEED)), dt))
                /\ \A k \in (1..16) \ {slot} :
                      obj'.m_translationMatrix[k] = obj.m_translationMatrix[k]
                /\ obj'.m_rotationMatrix = obj.m_rotationMatrix
        /\ (lastCall'.op = "updateRotationMatrixY") =>
              obj'.m_translationMatrix = obj.m_translationMatrix
      ]_vars

\* An object moved along x, then turned a quarter turn about a center off
\* the origin, is moved down along y.
C23_MovedAfterTurn ==
    /\ lastCall.op = "move"
    /\ lastCall.args = <<"y", R(-1), Frac(1, 2)>>
    /\ obj.m_translationMatrix[13] = R(1)
    /\ obj.m_translationMatrix[14] = R(-1)
    /\ obj.m_translationMatrix[15] = R(0)
    /\ obj.m_center # ZeroVec
    /\ obj.m_rotationMatrix = updateRotationMatrixY([obj EXCEPT !.m_rotationMatrix = getIdentityMat4], 1).m_rotationMatrix
    /\ obj.m_rotationMatrix # getIdentityMat4

-----------------------------------------------------------------------------
(* SpecCreate: Object::create step by step, one action for each statement  *)
(* that follows the last line of the file.                                 *)

\* The lines of the files read: three vertices in the plane z = 0 and the
\* triangle of the first three vertices.
CreateLines == VertexLines \cup {FLine(<<W(1), W(2), W(3)>>)}

\* The vertices as parseFile pushed them: no texture coordinates, no normal.
AsPushed(m_vertices) ==
    [i \in 1..Len(m_vertices) |->
        [m_vertices[i] EXCEPT !.uv = <<R(0), R(0)>>, !.normal = ZeroVec]]

StepUnchanged ==
    UNCHANGED <<Graphics, exitCode, gCamera, mouse, keysWas, renderer, window,
                deltaTime, frame, uniforms>>

\* EndOfLines going on to initBuffers without calculateUV_XY and
\* computeNormals.
EndOfLines_straightToBuffers ==
    /\ pc = "parse"
    /\ IF obj.m_vertices = <<>> \/ obj.m_indices = <<>>
       THEN pc' = "created" /\ objectPtr' = "nullptr"
       ELSE pc' = "buffers" /\ objectPtr' = objectPtr
    /\ obj' = obj
    /\ lastCall' = [op |-> "endOfLines", args |-> <<>>]
    /\ StepUnchanged

\* parseFile lines 245-246, and Object::create lines 32-35 when it returns 1.
EndOfLines ==
    /\ pc = "parse"
    /\ IF obj.m_vertices = <<>> \/ obj.m_indices = <<>>
       THEN pc' = "created" /\ objectPtr' = "nullptr"
       ELSE pc' = "uv" /\ objectPtr' = objectPtr
    /\ obj' = obj
    /\ lastCall' = [op |-> "endOfLines", args |-> <<>>]
    /\ StepUnchanged

\* parseFile line 247.
StepUV ==
    /\ pc = "uv"
    /\ obj' = [obj EXCEPT !.m_vertices = calculateUV_XY(@)]
    /\ pc' = "normals"
    /\ lastCall' = [op |-> "calculateUV_XY", args |-> <<>>]
    /\ objectPtr' = objectPtr
    /\ StepUnchanged

\* parseFile lines 248-249: with an index out of range computeNormals ends
\* the program or leaves any normals.
StepNormals ==
    /\ pc = "normals"
    /\ IF IndicesInRange(obj)
       THEN /\ obj' = [obj EXCEPT !.m_vertices = computeNormals(@, obj.m_indices)]
            /\ pc' = "buffers"
       ELSE \/ obj' = obj /\ pc' = "crashed"
            \/ \E g \in GarbageNormals :
                  /\ obj' = [obj EXCEPT !.m_vertices =
                               [i \in 1..Len(@) |-> [@[i] EXCEPT !.normal = g]]]
                  /\ pc' = "buffers"
    /\ lastCall' = [op |-> "computeNormals", args |-> <<>>]
    /\ objectPtr' = objectPtr
    /\ StepUnchanged

\* Object::create line 37.
StepInitBuffers ==
    /\ pc = "buffers"
    /\ obj' = initBuffers(obj)
    /\ pc' = "center"
    /\ lastCall' = [op |-> "initBuffers", args |-> <<>>]
    /\ objectPtr' = objectPtr
    /\ StepUnchanged

\* Object::create line 39.
StepCenter ==
    /\ pc = "center"
    /\ obj' = [obj EXCEPT !.m_center = calculateCenter(obj.m_vertices)]
    /\ pc' = "scale"
    /\ lastCall' = [op |-> "calculateCenter", args |-> <<>>]
    /\ objectPtr' = objectPtr
    /\ StepUnchanged

\* Object::create line 40.
StepScale ==
    /\ pc = "scale"
    /\ obj' = [obj EXCEPT !.m_scaleFactor = RDiv(R(1), calculateScale(obj.m_vertices))]
    /\ pc' = "matrices"
    /\ lastCall' = [op |-> "calculateScale", args |-> <<>>]
    /\ objectPtr' = objectPtr
    /\ StepUnchanged

\* Object::create lines 42-47.
StepReturn(mtlFile) ==
    /\ pc = "matrices"
    /\ obj' = [obj EXCEPT
                 !.m_matrix            = getIdentityMat4,
                 !.m_translationMatrix = getIdentityMat4,
                 !.m_rotationMatrix    = getIdentityMat4,
                 !.m_material          = [set |-> TRUE, m_params |-> Material_create(mtlFile)]]
    /\ pc' = "created"
    /\ objectPtr' = "object"
    /\ lastCall' = [op |-> "create", args |-> <<mtlFile>>]
    /\ StepUnchanged

NextCreate ==
    \/ \E found \in Startups : MainStartup(found)
    \/ \E opens \in BOOLEAN : CreateOpen(opens)
    \/ \E line \in CreateLines : ReadLine(line)
    \/ EndOfLines
    \/ StepUV
    \/ StepNormals
    \/ StepInitBuffers
    \/ StepCenter
    \/ StepScale
    \/ StepReturn(NoMtlFile)

SpecCreate == Init /\ [][NextCreate]_vars

\* Whether the vertices carry the texture coordinates calculateUV_XY gives
\* them and, where every index names a vertex, the normals computeNormals
\* gives them.
UVAndNormalsDone(o) ==
    LET projected == calculateUV_XY(AsPushed(o.m_vertices))
    IN  /\ \A i \in 1..Len(o.m_vertices) : o.m_vertices[i].uv = projected[i].uv
        /\ IndicesInRange(o) => o.m_vertices = computeNormals(projected, o.m_indices)

\* Whether nothing that follows the parse was done to the object.
NothingDone(o) ==
    /\ o.m_vertices = AsPushed(o.m_vertices)
    /\ ~o.m_VBO.set /\ ~o.m_IBO.set
    /\ o.m_center = ZeroVec
    /\ o.m_scaleFactor = R(0)
    /\ ~o.m_material.set

\* C24: the order of the steps of a load.  A line is read only while nothing
\* else was done; calculateUV_XY runs after the last line, on a mesh with
\* vertices and indices whose vertices are still as pushed; computeNormals
\* runs next; initBuffers uploads vertices that carry the texture
\* coordinates and normals; the center and the scale factor are computed
\* after the upload.  When the parse fails (the file does not open, or has
\* no vertices or no indices) none of these steps has run.
C24_LoadOrder ==
    [][ /\ (lastCall'.op = "parseLine") =>
              /\ lastCall.op \in {"open", "parseLine"}
              /\ NothingDone(obj)
        /\ (lastCall'.op = "calculateUV_XY") =>
              /\ lastCall.op = "endOfLines"
              /\ obj.m_vertices # <<>> /\ obj.m_indices # <<>>
              /\ NothingDone(obj)
              /\ obj'.m_vertices = calculateUV_XY(obj.m_vertices)
        /\ (lastCall'.op = "computeNormals") =>
              /\ lastCall.op = "calculateUV_XY"
              /\ obj.m_vertices # <<>> /\ obj.m_indices # <<>>
              /\ ~obj.m_VBO.set /\ obj.m_center = ZeroVec /\ obj.m_scaleFactor = R(0)
        /\ (lastCall'.op = "initBuffers") =>
              /\ lastCall.op = "computeNormals"
              /\ UVAndNormalsDone(obj)
              /\ obj'.m_VBO = [set |-> TRUE, data |-> obj.m_vertices]
              /\ obj.m_center = ZeroVec /\ obj.m_scaleFactor = R(0)
        /\ (lastCall'.op = "calculateCenter") =>
              /\ obj.m_VBO.set /\ UVAndNormalsDone(obj) /\ obj.m_scaleFactor = R(0)
        /\ (lastCall'.op = "calculateScale") =>
              /\ obj.m_VBO.set /\ UVAndNormalsDone(obj)
        /\ (objectPtr' = "nullptr") => NothingDone(obj')
      ]_vars

\* A triangle with three distinct vertices is loaded: the buffer holds the
\* vertices with their texture coordinates and the normal along z, and the
\* center and scale factor are those of the three positions.
C24_TriangleLoaded ==
    /\ pc = "created"
    /\ objectPtr = "object"
    /\ Len(obj.m_vertices) = 3
    /\ obj.m_VBO.data = obj.m_vertices
    /\ obj.m_vertices[1].position = Vec3(0, 0, 0)
    /\ obj.m_vertices[2].uv = <<R(1), R(0)>>
    /\ obj.m_vertices[3].uv = <<R(0), R(1)>>
    /\ obj.m_vertices[1].normal = Vec3(0, 0, 1)
    /\ obj.m_center = <<Frac(2, 3), Frac(4, 3), R(0)>>
    /\ obj.m_scaleFactor = Frac(1, 4)

-----------------------------------------------------------------------------
\* C26: the mode toggles are edge-triggered.  Before the first frame both
\* keys count as released.  processInput switches the polygon mode when P is
\* down in this frame and was not down at the previous processInput, and
\* only then, and remembers whether P is down; no other step of the program
\* changes the polygon mode or what is remembered.  The same holds of T and
\* the colour mode.  So a key held down over several frames switches its
\* mode once, and a frame without a released-to-pressed transition switches
\* nothing.
C26_TogglesOnEdges ==
    [][ /\ (pc = "main") => keysWas = [pWasPressed |-> FALSE, tWasPressed |-> FALSE]
        /\ IF pc = "input" THEN
              LET keys == lastCall'.args[1]
              IN  /\ renderer'.m_polygonMode =
                        IF "P" \in keys /\ ~keysWas.pWasPressed
                        THEN ~renderer.m_polygonMode ELSE renderer.m_polygonMode
                  /\ renderer'.m_colorMode =
                        IF "T" \in keys /\ ~keysWas.tWasPressed
                        THEN ~renderer.m_colorMode ELSE renderer.m_colorMode
                  /\ keysWas' = [pWasPressed |-> "P" \in keys, tWasPressed |-> "T" \in keys]
           ELSE /\ keysWas' = keysWas
                /\ renderer'.m_polygonMode = renderer.m_polygonMode
                /\ renderer'.m_colorMode = renderer.m_colorMode
      ]_vars

\* P is down in the first and in the second frame and T in the first only:
\* after the second processInput each mode has been switched once.
C26_HeldOverTwoFrames ==
    /\ pc = "rotate"
    /\ frame = 2
    /\ lastCall.op = "processInput"
    /\ "P" \in lastCall.args[1] /\ "T" \notin lastCall.args[1]
    /\ keysWas = [pWasPressed |-> TRUE, tWasPressed |-> FALSE]
    /\ renderer.m_polygonMode = TRUE
    /\ renderer.m_colorMode = FALSE

-----------------------------------------------------------------------------
(* SpecMouse: cursor-position events delivered one by one.                 *)

\* The cursor positions of the events, in pixels.
CursorXs == {R(300), R(400), R(500)}

CursorYs == {R(200), R(300), R(400)}

\* cursorPosCallback for one event; the call names the event's position and
\* lists the calls the callback made to the camera.
CursorEvent(xpos, ypos) ==
    LET st == cursorPosCallback([gCamera |-> gCamera, mouse |-> mouse,
                                 window |-> window, calls |-> <<>>], xpos, ypos)
    IN  /\ gCamera' = st.gCamera
        /\ mouse' = st.mouse
        /\ lastCall' = [op |-> "cursorPosCallback", args |-> <<xpos, ypos>>,
                        calls |-> st.calls]
        /\ UNCHANGED <<Graphics, pc, exitCode, obj, objectPtr, keysWas, renderer,
                       window, deltaTime, frame, uniforms>>

NextMouse == \E xpos \in CursorXs, ypos \in CursorYs : CursorEvent(xpos, ypos)

SpecMouse == Init /\ [][NextMouse]_vars

\* C27: the first cursor-position event after the start makes no call to
\* the camera and leaves it as it was, whatever its position; every later
\* event whose position differs from the position of the event just before
\* it makes the one call updateCameraDirection(dx, dy) with dx and dy that
\* difference; an event at the position of the event before it makes no
\* call.
C27_CursorDifferences ==
    [][ (lastCall'.op = "cursorPosCallback") =>
            IF lastCall.op # "cursorPosCallback" THEN
                /\ lastCall'.calls = <<>>
                /\ gCamera' = gCamera
            ELSE LET dx == RSub(lastCall'.args[1], lastCall.args[1])
                     dy == RSub(lastCall'.args[2], lastCall.args[2])
                 IN  IF dx = R(0) /\ dy = R(0) THEN
                         /\ lastCall'.calls = <<>>
                         /\ gCamera' = gCamera
                     ELSE
                         /\ lastCall'.calls = <<[op   |-> "updateCameraDirection",
                                                 args |-> <<dx, dy>>]>>
                         /\ gCamera' = updateCameraDirection(gCamera, dx, dy)
      ]_vars

\* The third event of three: the first, at (300, 200), left the camera at
\* its initial heading, the second was at (400, 400), and the third, at
\* (500, 300), turned the camera by (100, -100).
C27_ThirdEvent ==
    /\ lastCall.op = "cursorPosCallback"
    /\ lastCall.args = <<R(500), R(300)>>
    /\ lastCall.calls = <<[op |-> "updateCameraDirection", args |-> <<R(100), R(-100)>>]>>
    /\ gCamera.m_yaw = R(-70)
    /\ gCamera.m_pitch = R(-10)
    /\ mouse = [firstMouse |-> FALSE, lastX |-> R(500), lastY |-> R(300)]

-----------------------------------------------------------------------------
\* C29: for every mesh Object::create accepts, the largest extent of the
\* bounding box is greater than zero and the scale factor, its reciprocal,
\* is a finite number greater than zero.
C29_ScaleFinite ==
    (pc = "created" /\ objectPtr = "object") =>
        /\ RGt(calculateScale(obj.m_vertices), R(0))
        /\ IsFinite(obj.m_scaleFactor)
        /\ RGt(obj.m_scaleFactor, R(0))

-----------------------------------------------------------------------------
(* SpecPivot: loaded objects, a mesh of one point among them, turned by    *)
(* quarter turns and moved.                                                *)

\* The point a matrix maps a point to: the matrix is sent to the shader
\* column by column (entries 12, 13, 14 are the translation).
transformPoint(mat, p) ==
    LET Row(r) == RAdd(RAdd(RAdd(RMul(mat[r], p[1]), RMul(mat[4 + r], p[2])),
                            RMul(mat[8 + r], p[3])),
                       mat[12 + r])
    IN  <<Row(1), Row(2), Row(3)>>

\* A mesh whose vertices all coincide.
PointMesh ==
    [opens |-> TRUE, lines |-> <<VLine(2, 0, 0), FLine(<<W(1), W(1), W(1)>>)>>]

PivotObjects ==
    LoadedObjects \cup
    {r.o : r \in {c \in Object_create(PointMesh, NoMtlFile) : ~c.crashed /\ c.ptr = "object"}}

QuarterTurns == {1, 2}

InitPivot ==
    /\ pc = "loop"
    /\ exitCode = "none"
    /\ obj \in PivotObjects
    /\ objectPtr = "object"
    /\ gCamera = Camera(Vec3(0, 0, 2), Vec3(0, 0, 0), Vec3(0, 1, 0))
    /\ mouse = [firstMouse |-> TRUE, lastX |-> R(0), lastY |-> R(0)]
    /\ keysWas = [pWasPressed |-> FALSE, tWasPressed |-> FALSE]
    /\ renderer = [m_polygonMode |-> FALSE, m_colorMode |-> TRUE, rColorMix |-> R(1)]
    /\ window = [shouldClose |-> FALSE]
    /\ deltaTime = R(0)
    /\ frame = 0
    /\ uniforms = NoUniforms
    /\ gTextureManager = loadTexture2D(TextureManager, NewGL, Argv2, TRUE).tm
    /\ shader = NewShader
    /\ gl = loadTexture2D(TextureManager, NewGL, Argv2, TRUE).gl
    /\ lastCall = NoCall

NextPivot ==
    \/ \E angle \in QuarterTurns : ObjRotate(angle)
    \/ \E axis \in {"x", "y", "z"}, direction \in {R(1), R(-1)}, dt \in MoveTimes :
          ReadyMove(axis, direction, dt)

SpecPivot == InitPivot /\ [][NextPivot]_vars

\* C28: after any turns by quarter turns and any moves, the accumulated
\* rotation matrix maps the center of the mesh to itself, and the matrix
\* getMatrix returns maps the center to the accumulated translation
\* (getPosition).
C28_PivotKept ==
    /\ transformPoint(obj.m_rotationMatrix, obj.m_center) = obj.m_center
    /\ transformPoint(getMatrix(obj).m_matrix, obj.m_center) = getPosition(obj)

-----------------------------------------------------------------------------
\* C30: the mix factor Renderer::draw keeps and sends as uColorMix is from
\* 0 to 1 after any draws, toggles of the colour mode and frame times.
C30_MixWithinUnit ==
    /\ RLe(R(0), renderer.rColorMix) /\ RLe(renderer.rColorMix, R(1))
    /\ RLe(R(0), uniforms.uColorMix) /\ RLe(uniforms.uColorMix, R(1))

=============================================================================
